---- MODULE Spec2Model ----
(***************************************************************************)
(* Model of the archive extraction engine of src/src/infra/archive.ts (the *)
(* variant with resource limits, lines 264-644).                           *)
(*                                                                         *)
(* A path is a sequence of one-character strings.  The host is POSIX:      *)
(* path.resolve and path.dirname are the node:path posix functions.        *)
(***************************************************************************)
EXTENDS Integers, Sequences, FiniteSets, TLC

VARIABLES
  \* path checks: one stored path run through the pure functions
  pPath, pStrip, pValid, pRel, pRelValid, pOut,
  \* one extraction call: its parameters
  kind, entries, stripN, limits, archiveSize, hasNodeStream,
  \* its position and local variables
  pc, idx, curOut, remaining, entryBytes, extractedBytes, entryCount, err,
  archiveRead,
  \* the write stream of the zip entry being written: the state of its open,
  \* the bytes it holds back and the bytes of the write in flight
  wsOpen, wsQueued, wsWriting,
  \* the tar decoder: how far each entry has got on its way to the disk, and
  \* whether the parser has stopped reading headers
  phase, stopped,
  \* the filesystem: directories, files with their bytes and mode, and links
  fsDirs, fsFiles, fsLinks,
  \* history: filesystem calls made, containment checks made, bytes handed to
  \* the file writer (per entry and in total), the chunk a budget refused
  oplog, checks, fwdEntry, fwdTotal, refused,
  \* limit resolution: the limits a caller supplies and what they resolve to
  lSupplied, lResolved, lPc,
  \* kind resolution: the archive's file name, params.kind, the kind resolved,
  \* where extractArchive went and the error it threw
  kPath, kParam, kKind, kPc, kErr,
  \* withTimeout: the timer, how and with what the returned promise settled,
  \* timeoutMs, whether the extraction's own settlement was seen, and the
  \* number of settlements delivered to the caller
  tTimer, tOutcome, tErr, tMs, tSeen, tSettles, tUntouched,
  \* two extraction calls in flight at once: per call its archive, position
  \* and budget counters
  calls,
  \* resolvePackedRootDir: what is at the top of extractDir, the position of
  \* the call, the directory returned and the error thrown
  rLayout, rPc, rResult, rErr

(***************************************************************************)
(* Bounds of the model.                                                    *)
(***************************************************************************)
MaxPathLen == 6
MaxStrip == 2

SL == "/"
BS == "\\"
DOT == "."
COL == ":"
LETTER == "a"

PathChars == {LETTER, DOT, SL, BS, COL}

RECURSIVE SeqsUpTo(_, _)
SeqsUpTo(S, n) ==
  IF n = 0 THEN {<<>>}
  ELSE LET shorter == SeqsUpTo(S, n - 1)
       IN shorter \cup {Append(s, c) : s \in {t \in shorter : Len(t) = n - 1}, c \in S}

AllPaths == SeqsUpTo(PathChars, MaxPathLen)

(***************************************************************************)
(* String helpers of JavaScript and node:path (posix).                     *)
(***************************************************************************)
StartsWith(s, prefix) ==
  /\ Len(s) >= Len(prefix)
  /\ SubSeq(s, 1, Len(prefix)) = prefix

EndsWithSlash(s) == Len(s) > 0 /\ s[Len(s)] = SL

\* String.prototype.split("/"): the segments between the slashes, empty ones kept.
RECURSIVE SplitSlash(_)
SplitSlash(s) ==
  IF \A i \in 1..Len(s) : s[i] # SL THEN <<s>>
  ELSE LET i == CHOOSE k \in 1..Len(s) : s[k] = SL /\ \A j \in 1..(k - 1) : s[j] # SL
       IN <<SubSeq(s, 1, i - 1)>> \o SplitSlash(SubSeq(s, i + 1, Len(s)))

\* Array.prototype.join("/")
RECURSIVE JoinSlash(_)
JoinSlash(parts) ==
  IF Len(parts) = 0 THEN <<>>
  ELSE IF Len(parts) = 1 THEN parts[1]
  ELSE parts[1] \o <<SL>> \o JoinSlash(Tail(parts))

DotDot == <<DOT, DOT>>

\* node:path normalizeString: empty and "." segments are dropped, ".." removes
\* the segment before it unless there is none (or it is ".." itself), in which
\* case it is kept only when allowAboveRoot.
RECURSIVE NormalizeSegs(_, _, _)
NormalizeSegs(parts, acc, allowAboveRoot) ==
  IF Len(parts) = 0 THEN acc
  ELSE LET seg == Head(parts)
           rest == Tail(parts)
       IN IF seg = <<>> \/ seg = <<DOT>> THEN NormalizeSegs(rest, acc, allowAboveRoot)
          ELSE IF seg = DotDot
            THEN IF Len(acc) > 0 /\ acc[Len(acc)] # DotDot
                   THEN NormalizeSegs(rest, SubSeq(acc, 1, Len(acc) - 1), allowAboveRoot)
                   ELSE IF allowAboveRoot
                     THEN NormalizeSegs(rest, Append(acc, DotDot), allowAboveRoot)
                     ELSE NormalizeSegs(rest, acc, allowAboveRoot)
            ELSE NormalizeSegs(rest, Append(acc, seg), allowAboveRoot)

NormalizeString(s, allowAboveRoot) ==
  JoinSlash(NormalizeSegs(SplitSlash(s), <<>>, allowAboveRoot))

\* path.posix.isAbsolute
PosixIsAbsolute(s) == Len(s) > 0 /\ s[1] = SL

\* path.posix.normalize
PosixNormalize(s) ==
  IF Len(s) = 0 THEN <<DOT>>
  ELSE LET isAbs == PosixIsAbsolute(s)
           trailing == EndsWithSlash(s)
           body == NormalizeString(s, ~isAbs)
       IN IF Len(body) = 0
            THEN IF isAbs THEN <<SL>>
                 ELSE IF trailing THEN <<DOT, SL>> ELSE <<DOT>>
            ELSE (IF isAbs THEN <<SL>> ELSE <<>>) \o body
                 \o (IF trailing THEN <<SL>> ELSE <<>>)

\* path.resolve(base, rel) on a POSIX host, base being an absolute path.
PathResolve(base, rel) ==
  LET joined == IF PosixIsAbsolute(rel) THEN rel
                ELSE IF Len(rel) = 0 THEN base
                ELSE base \o <<SL>> \o rel
  IN <<SL>> \o NormalizeString(joined, FALSE)

\* path.dirname on a POSIX host, for a resolved absolute path.
PathDirname(p) ==
  LET slashes == {i \in 1..Len(p) : p[i] = SL}
      last == CHOOSE i \in slashes : \A j \in slashes : j <= i
  IN IF slashes = {} THEN <<DOT>>
     ELSE IF last = 1 THEN <<SL>>
     ELSE SubSeq(p, 1, last - 1)

(***************************************************************************)
(* The pure functions of archive.ts.                                       *)
(***************************************************************************)
\* resolveSafeBaseDir, archive.ts:352-355
resolveSafeBaseDir(destDir) ==
  LET resolved == PathResolve(destDir, <<>>)
  IN IF EndsWithSlash(resolved) THEN resolved ELSE resolved \o <<SL>>

\* normalizeArchivePath, archive.ts:357-360
normalizeArchivePath(raw) ==
  [i \in 1..Len(raw) |-> IF raw[i] = BS THEN SL ELSE raw[i]]

\* a drive test that only knows the forward slash
isWindowsDrivePath_SlashOnly(p) ==
  /\ Len(p) >= 3
  /\ p[1] = LETTER
  /\ p[2] = COL
  /\ p[3] = SL

\* isWindowsDrivePath, archive.ts:362-364
isWindowsDrivePath(p) ==
  /\ Len(p) >= 3
  /\ p[1] = LETTER
  /\ p[2] = COL
  /\ p[3] \in {BS, SL}

NoError == "ok"
ErrDrive == "archive entry uses a drive path"
ErrEscape == "archive entry escapes destination"
ErrAbsolute == "archive entry is absolute"

\* a validator that only rejects the bare ".."
validateArchiveEntryPath_NoEscape(entryPath) ==
  IF entryPath = <<>> \/ entryPath = <<DOT>> \/ entryPath = <<DOT, SL>> THEN NoError
  ELSE IF isWindowsDrivePath(entryPath) THEN ErrDrive
  ELSE LET normalized == PosixNormalize(normalizeArchivePath(entryPath))
       IN IF normalized = DotDot THEN ErrEscape
          ELSE IF PosixIsAbsolute(normalized) \/ StartsWith(normalized, <<SL, SL>>)
            THEN ErrAbsolute
          ELSE NoError

\* a validator that tests the stored path, not the normalized one, for "/"
validateArchiveEntryPath_NoAbsolute(entryPath) ==
  IF entryPath = <<>> \/ entryPath = <<DOT>> \/ entryPath = <<DOT, SL>> THEN NoError
  ELSE IF isWindowsDrivePath(entryPath) THEN ErrDrive
  ELSE LET normalized == PosixNormalize(normalizeArchivePath(entryPath))
       IN IF normalized = DotDot \/ StartsWith(normalized, <<DOT, DOT, SL>>) THEN ErrEscape
          ELSE IF PosixIsAbsolute(entryPath) \/ StartsWith(normalized, <<SL, SL>>)
            THEN ErrAbsolute
          ELSE NoError

\* validateArchiveEntryPath, archive.ts:366-380: the error it throws, or NoError.
validateArchiveEntryPath(entryPath) ==
  IF entryPath = <<>> \/ entryPath = <<DOT>> \/ entryPath = <<DOT, SL>> THEN NoError
  ELSE IF isWindowsDrivePath(entryPath) THEN ErrDrive
  ELSE LET normalized == PosixNormalize(normalizeArchivePath(entryPath))
       IN IF normalized = DotDot \/ StartsWith(normalized, <<DOT, DOT, SL>>) THEN ErrEscape
          ELSE IF PosixIsAbsolute(normalized) \/ StartsWith(normalized, <<SL, SL>>)
            THEN ErrAbsolute
          ELSE NoError

Null == <<"null">>

Max(a, b) == IF a >= b THEN a ELSE b

Drop(s, n) == IF n >= Len(s) THEN <<>> ELSE SubSeq(s, n + 1, Len(s))

\* stripArchivePath of the unlimited variant, archive.ts:102-118: the stored
\* path is collapsed by path.posix.normalize before it is split.
stripArchivePathUnlimited(entryPath, stripComponents) ==
  LET normalized == PosixNormalize(normalizeArchivePath(entryPath))
  IN IF normalized = <<>> \/ normalized = <<DOT>> \/ normalized = <<DOT, SL>> THEN Null
     ELSE LET parts == SelectSeq(SplitSlash(normalized), LAMBDA part : Len(part) > 0 /\ part # <<DOT>>)
              strip == Max(0, stripComponents)
              stripped == IF strip = 0 THEN JoinSlash(parts) ELSE JoinSlash(Drop(parts, strip))
              result == PosixNormalize(stripped)
          IN IF result = <<>> \/ result = <<DOT>> \/ result = <<DOT, SL>> THEN Null
             ELSE result

\* variant of the limits stripArchivePath that collapses before splitting
stripArchivePath_CollapseFirst(entryPath, stripComponents) ==
  stripArchivePathUnlimited(entryPath, stripComponents)

\* stripArchivePath, archive.ts:382-398: the stripped path, or Null.
stripArchivePath(entryPath, stripComponents) ==
  LET raw == normalizeArchivePath(entryPath)
  IN IF raw = <<>> \/ raw = <<DOT>> \/ raw = <<DOT, SL>> THEN Null
     ELSE LET parts == SelectSeq(SplitSlash(raw), LAMBDA part : Len(part) > 0 /\ part # <<DOT>>)
              strip == Max(0, stripComponents)
              stripped == IF strip = 0 THEN JoinSlash(parts) ELSE JoinSlash(Drop(parts, strip))
              result == PosixNormalize(stripped)
          IN IF result = <<>> \/ result = <<DOT>> \/ result = <<DOT, SL>> THEN Null
             ELSE result

\* resolveCheckedOutPath, archive.ts:400-407: the output path, or Null when it throws.
resolveCheckedOutPath(destDir, relPath) ==
  LET safeBase == resolveSafeBaseDir(destDir)
      outPath == PathResolve(destDir, relPath)
  IN IF ~StartsWith(outPath, safeBase) THEN Null ELSE outPath

Unset == "unset"
UnsetPath == <<"unset">>

StripValues == 0..MaxStrip

\* The destination directory of the model; "/aa" is a sibling whose name has
\* it as a string prefix.
DestDir == <<SL, LETTER>>

pathVars == <<pPath, pStrip, pValid, pRel, pRelValid, pOut>>

(***************************************************************************)
(* Limits, archive.ts:409-425.  A supplied limit is undefined, a           *)
(* non-finite number, or a finite number held in halves (twice = 2*value). *)
(***************************************************************************)
Undefined == [def |-> FALSE, v |-> 0]
Num(n) == [t |-> "number", twice |-> 2 * n]
NotSet == [t |-> "undefined", twice |-> 0]

\* typeof value !== "number" (undefined, a string) and the non-finite numbers
NaN == [t |-> "NaN", twice |-> 0]
PosInfinity == [t |-> "Infinity", twice |-> 0]
NegInfinity == [t |-> "-Infinity", twice |-> 0]
NotNumber == [t |-> "string", twice |-> 0]

\* Math.floor of twice/2
Floor2(twice) == twice \div 2

\* a clamp that lets a value that floors to zero through
clampLimit_AllowZero(value) ==
  IF value.t # "number" THEN Undefined
  ELSE LET v == Floor2(value.twice)
       IN IF v >= 0 THEN [def |-> TRUE, v |-> v] ELSE Undefined

\* clampLimit, archive.ts:409-415
clampLimit(value) ==
  IF value.t # "number" THEN Undefined
  ELSE LET v == Floor2(value.twice)
       IN IF v > 0 THEN [def |-> TRUE, v |-> v] ELSE Undefined

DefaultMaxArchiveBytes == 268435456
DefaultMaxEntries == 50000
DefaultMaxExtractedBytes == 536870912
DefaultMaxEntryBytes == 268435456

OrElse(x, d) == IF x.def THEN x.v ELSE d

\* resolveExtractLimits, archive.ts:417-425
resolveExtractLimits(l) ==
  [maxArchiveBytes |-> OrElse(clampLimit(l.maxArchiveBytes), DefaultMaxArchiveBytes),
   maxEntries |-> OrElse(clampLimit(l.maxEntries), DefaultMaxEntries),
   maxExtractedBytes |-> OrElse(clampLimit(l.maxExtractedBytes), DefaultMaxExtractedBytes),
   maxEntryBytes |-> OrElse(clampLimit(l.maxEntryBytes), DefaultMaxEntryBytes)]

ErrArchiveSize == "archive size exceeds limit"
ErrEntryCount == "archive entry count exceeds limit"
ErrEntrySize == "archive entry extracted size exceeds limit"
ErrTotalSize == "archive extracted size exceeds limit"
ErrLink == "tar entry is a link"
ErrIo == "filesystem error"

\* onChunkBytes, archive.ts:483-492: the counters after the call and the error thrown.
onChunkBytes(bytes, eBytes, xBytes, lim) ==
  LET e1 == eBytes + bytes
  IN IF e1 > lim.maxEntryBytes
       THEN [entryBytes |-> e1, extractedBytes |-> xBytes, err |-> ErrEntrySize]
       ELSE LET x1 == xBytes + bytes
            IN IF x1 > lim.maxExtractedBytes
                 THEN [entryBytes |-> e1, extractedBytes |-> x1, err |-> ErrTotalSize]
                 ELSE [entryBytes |-> e1, extractedBytes |-> x1, err |-> NoError]

\* a transform that hands the chunk on before looking at the budget
createExtractBudgetTransform_ForwardAlways(bytes, eBytes, xBytes, lim) ==
  LET r == onChunkBytes(bytes, eBytes, xBytes, lim)
  IN [entryBytes |-> r.entryBytes, extractedBytes |-> r.extractedBytes, err |-> r.err,
      forwarded |-> bytes]

\* createExtractBudgetTransform, archive.ts:427-441: transform(chunk) calls
\* onChunkBytes and hands the chunk on only when it did not throw.
createExtractBudgetTransform(bytes, eBytes, xBytes, lim) ==
  LET r == onChunkBytes(bytes, eBytes, xBytes, lim)
  IN [entryBytes |-> r.entryBytes, extractedBytes |-> r.extractedBytes, err |-> r.err,
      forwarded |-> IF r.err = NoError THEN bytes ELSE 0]

\* the loop without any path check: strip and join only
ZipResolveEntry_Unchecked(name, n, destDir) ==
  LET relPath == stripArchivePath(name, n)
  IN IF relPath = Null THEN [status |-> "skip", err |-> NoError, out |-> Null, checked |-> FALSE]
     ELSE [status |-> "out", err |-> NoError, out |-> PathResolve(destDir, relPath),
           checked |-> FALSE]

\* the loop without the second validation, of the stripped path
ZipResolveEntry_NoRevalidate(name, n, destDir) ==
  LET v1 == validateArchiveEntryPath(name)
      relPath == stripArchivePath(name, n)
      out == resolveCheckedOutPath(destDir, relPath)
  IN IF v1 # NoError THEN [status |-> "throw", err |-> v1, out |-> Null, checked |-> FALSE]
     ELSE IF relPath = Null THEN [status |-> "skip", err |-> NoError, out |-> Null, checked |-> FALSE]
     ELSE IF out = Null THEN [status |-> "throw", err |-> ErrEscape, out |-> Null, checked |-> TRUE]
     ELSE [status |-> "out", err |-> NoError, out |-> out, checked |-> TRUE]

\* extractZip, archive.ts:467-475: validate, strip, validate, containment check.
ZipResolveEntry(name, n, destDir) ==
  LET v1 == validateArchiveEntryPath(name)
      relPath == stripArchivePath(name, n)
      v2 == validateArchiveEntryPath(relPath)
      out == resolveCheckedOutPath(destDir, relPath)
  IN IF v1 # NoError THEN [status |-> "throw", err |-> v1, out |-> Null, checked |-> FALSE]
     ELSE IF relPath = Null THEN [status |-> "skip", err |-> NoError, out |-> Null, checked |-> FALSE]
     ELSE IF v2 # NoError THEN [status |-> "throw", err |-> v2, out |-> Null, checked |-> FALSE]
     ELSE IF out = Null THEN [status |-> "throw", err |-> ErrEscape, out |-> Null, checked |-> TRUE]
     ELSE [status |-> "out", err |-> NoError, out |-> out, checked |-> TRUE]

(***************************************************************************)
(* The filesystem.                                                         *)
(***************************************************************************)
Root == <<SL>>

\* the directories fs.mkdir(p, {recursive: true}) needs: p and its ancestors
DirChain(p) ==
  {SubSeq(p, 1, i - 1) : i \in {j \in 2..Len(p) : p[j] = SL}} \cup {p}

MkdirFails(files, p) == \E d \in DirChain(p) : d \in DOMAIN files

DefaultFileMode == 420

PutFile(files, p, bytes, mode) ==
  [q \in (DOMAIN files) \cup {p} |-> IF q = p THEN [bytes |-> bytes, mode |-> mode] ELSE files[q]]

RemoveFile(files, p) == [q \in (DOMAIN files) \ {p} |-> files[q]]

ModeAt(files, p) == IF p \in DOMAIN files THEN files[p].mode ELSE DefaultFileMode

NoFiles == [q \in {} |-> [bytes |-> 0, mode |-> 0]]

Op(o, p, i) == [op |-> o, path |-> p, entry |-> i]

(***************************************************************************)
(* Spec: one call of extractZip, archive.ts:443-523.                       *)
(***************************************************************************)
MaxArchiveLen == 2
MaxChunk == 2

NoPerm == [isNum |-> FALSE, v |-> 0]
Perm(m) == [isNum |-> TRUE, v |-> m]
Entry(name, type, size, perm) == [name |-> name, type |-> type, size |-> size, perm |-> perm]

\* stored Unix permissions: 2541 is 0o4755, 384 is 0o600
ZipEntryOptions ==
  { Entry(<<"a">>, "File", 1, NoPerm),
    Entry(<<"a", ".">>, "File", 3, Perm(384)),
    Entry(<<"a", "/", "a">>, "File", 2, Perm(2541)),
    Entry(<<"a", "/">>, "Directory", 0, NoPerm),
    Entry(<<".", "/", "a">>, "File", 2, NoPerm),
    Entry(<<".", "/">>, "Directory", 0, NoPerm),
    Entry(<<".", ".", "/", "a", "a">>, "File", 1, NoPerm),
    Entry(<<"a", "/", ".", ".", "/", "a">>, "File", 1, NoPerm),
    Entry(<<"a", "/", "a", ":", "/", "a">>, "File", 1, NoPerm),
    Entry(<<"a", "\\", "a", "\\", "a">>, "File", 1, Perm(0)),
    Entry(<<"\\", "a">>, "File", 1, NoPerm) }

\* JSZip keeps its entries in an object keyed by name: names are distinct.
DistinctNames(a) == \A i, j \in 1..Len(a) : a[i].name = a[j].name => i = j

ZipArchives == {a \in SeqsUpTo(ZipEntryOptions, MaxArchiveLen) : DistinctNames(a)}

SuppliedLimits ==
  [maxArchiveBytes : {Num(1)},
   maxEntries : {Num(1), Num(2), NotSet},
   maxExtractedBytes : {Num(3), NotSet},
   maxEntryBytes : {Num(2), NotSet}]

ArchiveSizes == {1, 2}

params == <<kind, stripN, limits, archiveSize, hasNodeStream>>
wsVars == <<wsOpen, wsQueued, wsWriting>>
tarVars == <<phase, stopped>>
locals == <<entries, pc, idx, curOut, remaining, entryBytes, extractedBytes, entryCount, err, archiveRead,
            wsVars, tarVars>>
fsVars == <<fsDirs, fsFiles, fsLinks>>
history == <<oplog, checks, fwdEntry, fwdTotal, refused>>
extractVars == <<params, locals, fsVars, history>>
limVars == <<lSupplied, lResolved, lPc>>
kindVars == <<kPath, kParam, kKind, kPc, kErr>>
raceVars == <<tTimer, tOutcome, tErr, tMs, tSeen, tSettles, tUntouched>>
concVars == <<calls>>
rootVars == <<rLayout, rPc, rResult, rErr>>
auxVars == <<limVars, kindVars, raceVars, concVars, rootVars>>
limOthers == <<pathVars, extractVars, kindVars, raceVars, concVars, rootVars>>
kindOthers == <<pathVars, extractVars, limVars, raceVars, concVars, rootVars>>
raceOthers == <<pathVars, limVars, kindVars, concVars, rootVars>>
concOthers == <<pathVars, extractVars, limVars, kindVars, raceVars, rootVars>>
rootOthers == <<pathVars, extractVars, limVars, kindVars, raceVars, concVars>>
vars == <<pathVars, extractVars, auxVars>>

NoLimits == [maxArchiveBytes |-> NotSet, maxEntries |-> NotSet,
             maxExtractedBytes |-> NotSet, maxEntryBytes |-> NotSet]

LimIdle ==
  /\ lSupplied = NoLimits
  /\ lResolved = resolveExtractLimits(NoLimits)
  /\ lPc = "idle"

KindIdle ==
  /\ kPath = <<>>
  /\ kParam = "undefined"
  /\ kKind = Unset
  /\ kPc = "idle"
  /\ kErr = NoError

Settled(msg, label, ms) == [msg |-> msg, label |-> label, ms |-> ms]
NotSettled == Settled(NoError, "", 0)

RaceIdle ==
  /\ tTimer = "none"
  /\ tOutcome = "none"
  /\ tErr = NotSettled
  /\ tMs = 0
  /\ tSeen = FALSE
  /\ tSettles = 0
  /\ tUntouched = FALSE

Calls == {1, 2}

Call(k, a, p, i, rem, eBytes, xBytes, count, e) ==
  [kind |-> k, entries |-> a, pc |-> p, idx |-> i, remaining |-> rem, entryBytes |-> eBytes,
   extractedBytes |-> xBytes, entryCount |-> count, err |-> e]

ConcIdle == calls = [c \in Calls |-> Call("none", <<>>, "idle", 0, 0, 0, 0, 0, NoError)]

TopNames == {"package", "a", "b", "c"}

RootIdle ==
  /\ rLayout = [n \in TopNames |-> "absent"]
  /\ rPc = "idle"
  /\ rResult = Null
  /\ rErr = NoError

AuxIdle ==
  /\ LimIdle
  /\ KindIdle
  /\ RaceIdle
  /\ ConcIdle
  /\ RootIdle

PathIdle ==
  /\ pPath = <<>>
  /\ pStrip = 0
  /\ pValid = Unset
  /\ pRel = UnsetPath
  /\ pRelValid = Unset
  /\ pOut = UnsetPath

ExtractStart ==
  /\ idx = 0
  /\ curOut = Null
  /\ remaining = 0
  /\ entryBytes = 0
  /\ extractedBytes = 0
  /\ entryCount = 0
  /\ err = NoError
  /\ archiveRead = FALSE
  /\ wsOpen = "none"
  /\ wsQueued = 0
  /\ wsWriting = 0
  /\ phase = <<>>
  /\ stopped = FALSE
  /\ fsDirs = {Root, DestDir}
  /\ fsFiles = NoFiles
  /\ fsLinks = {}
  /\ oplog = {}
  /\ checks = {}
  /\ fwdEntry = 0
  /\ fwdTotal = 0
  /\ refused = 0

ZipCall ==
  /\ PathIdle
  /\ kind = "zip"
  /\ entries = <<>>
  /\ stripN \in StripValues
  /\ limits \in {resolveExtractLimits(l) : l \in SuppliedLimits}
  /\ archiveSize \in ArchiveSizes
  /\ hasNodeStream \in BOOLEAN
  /\ pc = "stat"
  /\ ExtractStart

ZipInit ==
  /\ ZipCall
  /\ AuxIdle

\* a start that reads the archive whatever its size
ZipStat_NoSizeCheck ==
  /\ kind = "zip" /\ pc = "stat"
  /\ pc' = "read" /\ err' = err
  /\ UNCHANGED <<params, entries, idx, curOut, remaining, entryBytes, extractedBytes, entryCount,
                 archiveRead, wsVars, tarVars, fsVars, history, pathVars, auxVars>>

\* archive.ts:449-453
ZipStat ==
  /\ kind = "zip" /\ pc = "stat"
  /\ IF archiveSize > limits.maxArchiveBytes
       THEN pc' = "failed" /\ err' = ErrArchiveSize
       ELSE pc' = "read" /\ err' = err
  /\ UNCHANGED <<params, entries, idx, curOut, remaining, entryBytes, extractedBytes, entryCount,
                 archiveRead, wsVars, tarVars, fsVars, history, pathVars, auxVars>>

\* archive.ts:455-464
ZipLoad ==
  /\ kind = "zip" /\ pc = "read"
  /\ archiveRead' = TRUE
  /\ entries' \in ZipArchives
  /\ IF Len(entries') > limits.maxEntries
       THEN pc' = "failed" /\ err' = ErrEntryCount /\ idx' = idx
       ELSE pc' = "entry" /\ err' = err /\ idx' = 1
  /\ extractedBytes' = 0
  /\ UNCHANGED <<params, curOut, remaining, entryBytes, entryCount, wsVars, tarVars, fsVars,
                 history, pathVars, auxVars>>

\* the directory fs.mkdir(p, {recursive: true}) makes next: the topmost one
\* of the chain that is not there
NextDir(dirs, p) ==
  CHOOSE d \in DirChain(p) \ dirs : \A d2 \in DirChain(p) \ dirs : Len(d) <= Len(d2)

\* a loop that starts the write of an entry and goes on to the next entry
\* without awaiting it
ZipEntry_NoAwait ==
  /\ kind = "zip" /\ pc = "entry" /\ idx <= Len(entries)
  /\ LET e == entries[idx]
         r == ZipResolveEntry(e.name, Max(0, stripN), DestDir)
         target == IF e.type = "Directory" THEN r.out ELSE PathDirname(r.out)
         made == DirChain(target) \ fsDirs
         mkdirs == {Op("mkdir", d, idx) : d \in made}
     IN /\ checks' = IF r.checked THEN checks \cup {[entry |-> idx, out |-> r.out]} ELSE checks
        /\ IF r.status = "throw"
             THEN /\ pc' = "failed" /\ err' = r.err
                  /\ UNCHANGED <<idx, curOut, remaining, entryBytes, fsDirs, oplog, fwdEntry, wsOpen>>
           ELSE IF r.status = "skip"
             THEN /\ idx' = idx + 1
                  /\ UNCHANGED <<pc, err, curOut, remaining, entryBytes, fsDirs, oplog, fwdEntry,
                                 wsOpen>>
           ELSE IF MkdirFails(fsFiles, target)
             THEN /\ pc' = "failed" /\ err' = ErrIo
                  /\ UNCHANGED <<idx, curOut, remaining, entryBytes, fsDirs, oplog, fwdEntry, wsOpen>>
           ELSE IF e.type = "Directory"
             THEN /\ fsDirs' = fsDirs \cup made
                  /\ oplog' = oplog \cup mkdirs
                  /\ idx' = idx + 1
                  /\ UNCHANGED <<pc, err, curOut, remaining, entryBytes, fwdEntry, wsOpen>>
           ELSE /\ fsDirs' = fsDirs \cup made
                /\ oplog' = oplog \cup mkdirs
                /\ curOut' = r.out
                /\ entryBytes' = 0
                /\ fwdEntry' = 0
                /\ remaining' = e.size
                /\ idx' = idx + 1
                /\ pc' = "entry" /\ err' = err
                /\ wsOpen' = IF hasNodeStream THEN "pending" ELSE "none"
  /\ UNCHANGED <<params, entries, extractedBytes, entryCount, archiveRead, wsQueued, wsWriting,
                 tarVars, fsFiles, fsLinks, fwdTotal, refused, pathVars, auxVars>>

\* archive.ts:466-497, one iteration of the loop up to the start of the
\* write: the path checks, then the awaited fs.mkdir, which makes the missing
\* directories one by one from the top: this step makes the first, and when
\* more are missing the call is still awaited (ZipMkdir).  For a file entry
\* the output file does not exist yet: in stream mode createWriteStream has
\* only started to open it.
ZipEntry ==
  /\ kind = "zip" /\ pc = "entry" /\ idx <= Len(entries)
  /\ LET e == entries[idx]
         Mkdir(out, target) ==
           LET missing == DirChain(target) \ fsDirs
               made == IF missing = {} THEN {} ELSE {NextDir(fsDirs, target)}
               mkdirs == {Op("mkdir", d, idx) : d \in made}
           IN IF MkdirFails(fsFiles, target)
                THEN /\ pc' = "failed" /\ err' = ErrIo
                     /\ UNCHANGED <<idx, curOut, remaining, entryBytes, fsDirs, oplog, fwdEntry,
                                    wsOpen>>
              ELSE IF missing # made
                THEN /\ fsDirs' = fsDirs \cup made
                     /\ oplog' = oplog \cup mkdirs
                     /\ pc' = "mkdir" /\ err' = err
                     /\ UNCHANGED <<idx, curOut, remaining, entryBytes, fwdEntry, wsOpen>>
              ELSE IF e.type = "Directory"
                THEN /\ fsDirs' = fsDirs \cup made
                     /\ oplog' = oplog \cup mkdirs
                     /\ idx' = idx + 1
                     /\ UNCHANGED <<pc, err, curOut, remaining, entryBytes, fwdEntry, wsOpen>>
              ELSE /\ fsDirs' = fsDirs \cup made
                   /\ oplog' = oplog \cup mkdirs
                   /\ curOut' = out
                   /\ entryBytes' = 0
                   /\ fwdEntry' = 0
                   /\ remaining' = e.size
                   /\ idx' = idx
                   /\ pc' = "stream" /\ err' = err
                   /\ wsOpen' = IF hasNodeStream THEN "pending" ELSE "none"
         Checked(r) ==
           /\ checks' = IF r.checked THEN checks \cup {[entry |-> idx, out |-> r.out]} ELSE checks
           /\ IF r.status = "throw"
                THEN /\ pc' = "failed" /\ err' = r.err
                     /\ UNCHANGED <<idx, curOut, remaining, entryBytes, fsDirs, oplog, fwdEntry,
                                    wsOpen>>
              ELSE IF r.status = "skip"
                THEN /\ idx' = idx + 1
                     /\ UNCHANGED <<pc, err, curOut, remaining, entryBytes, fsDirs, oplog,
                                    fwdEntry, wsOpen>>
              ELSE Mkdir(r.out, IF e.type = "Directory" THEN r.out ELSE PathDirname(r.out))
     IN Checked(ZipResolveEntry(e.name, Max(0, stripN), DestDir))
  /\ UNCHANGED <<params, entries, extractedBytes, entryCount, archiveRead, wsQueued, wsWriting,
                 tarVars, fsFiles, fsLinks, fwdTotal, refused, pathVars, auxVars>>

\* archive.ts:477 and 481: the awaited fs.mkdir makes the next missing
\* directory; with the last one it returns, and the loop goes on to the next
\* entry (a directory entry) or starts the write (a file entry)
ZipMkdir ==
  /\ kind = "zip" /\ pc = "mkdir"
  /\ LET e == entries[idx]
         Mkdir(out, target) ==
           LET missing == DirChain(target) \ fsDirs
               made == {NextDir(fsDirs, target)}
           IN /\ fsDirs' = fsDirs \cup made
              /\ oplog' = oplog \cup {Op("mkdir", d, idx) : d \in made}
              /\ IF missing # made
                   THEN UNCHANGED <<pc, idx, curOut, remaining, entryBytes, fwdEntry, wsOpen>>
                 ELSE IF e.type = "Directory"
                   THEN /\ idx' = idx + 1
                        /\ pc' = "entry"
                        /\ UNCHANGED <<curOut, remaining, entryBytes, fwdEntry, wsOpen>>
                 ELSE /\ curOut' = out
                      /\ entryBytes' = 0
                      /\ fwdEntry' = 0
                      /\ remaining' = e.size
                      /\ idx' = idx
                      /\ pc' = "stream"
                      /\ wsOpen' = IF hasNodeStream THEN "pending" ELSE "none"
         Resolved(out) == Mkdir(out, IF e.type = "Directory" THEN out ELSE PathDirname(out))
     IN Resolved(ZipResolveEntry(e.name, Max(0, stripN), DestDir).out)
  /\ UNCHANGED <<params, entries, extractedBytes, entryCount, err, archiveRead, wsQueued,
                 wsWriting, tarVars, fsFiles, fsLinks, checks, fwdTotal, refused, pathVars,
                 auxVars>>

\* a write stream that opens the output file exclusively and fails when
\* something is there
ZipOpen_Exclusive ==
  /\ kind = "zip" /\ pc \in {"stream", "cleanup"} /\ wsOpen = "pending"
  /\ IF curOut \in fsDirs \/ curOut \in DOMAIN fsFiles
       THEN /\ wsOpen' = "failed"
            /\ wsQueued' = 0 /\ wsWriting' = wsWriting
            /\ IF pc = "stream" THEN pc' = "cleanup" /\ err' = ErrIo ELSE pc' = pc /\ err' = err
            /\ UNCHANGED <<fsFiles, oplog>>
       ELSE /\ wsOpen' = "open"
            /\ fsFiles' = PutFile(fsFiles, curOut, 0, ModeAt(fsFiles, curOut))
            /\ oplog' = oplog \cup {Op("write", curOut, idx)}
            /\ wsWriting' = IF pc = "stream" THEN wsQueued ELSE 0
            /\ wsQueued' = 0
            /\ pc' = pc /\ err' = err
  /\ UNCHANGED <<params, entries, idx, curOut, remaining, entryBytes, extractedBytes, entryCount,
                 archiveRead, tarVars, fsDirs, fsLinks, checks, fwdEntry, fwdTotal, refused,
                 pathVars, auxVars>>

\* archive.ts:507: the open of createWriteStream(outPath) completes, some time
\* after the pipeline was started.  It creates the file or truncates the one
\* that is there, and the bytes queued meanwhile start to be written; on a
\* directory it fails and the pipeline rejects, unless a budget error has
\* already destroyed the stream.
ZipOpen ==
  /\ kind = "zip" /\ pc \in {"stream", "cleanup"} /\ wsOpen = "pending"
  /\ IF curOut \in fsDirs
       THEN /\ wsOpen' = "failed"
            /\ wsQueued' = 0 /\ wsWriting' = wsWriting
            /\ IF pc = "stream" THEN pc' = "cleanup" /\ err' = ErrIo ELSE pc' = pc /\ err' = err
            /\ UNCHANGED <<fsFiles, oplog>>
       ELSE /\ wsOpen' = "open"
            /\ fsFiles' = PutFile(fsFiles, curOut, 0, ModeAt(fsFiles, curOut))
            /\ oplog' = oplog \cup {Op("write", curOut, idx)}
            /\ wsWriting' = IF pc = "stream" THEN wsQueued ELSE 0
            /\ wsQueued' = 0
            /\ pc' = pc /\ err' = err
  /\ UNCHANGED <<params, entries, idx, curOut, remaining, entryBytes, extractedBytes, entryCount,
                 archiveRead, tarVars, fsDirs, fsLinks, checks, fwdEntry, fwdTotal, refused,
                 pathVars, auxVars>>

\* archive.ts:504-508: one chunk of the entry goes through the budget
\* transform.  A chunk that passes is handed to the write stream, which writes
\* it at once when it is open and idle and queues it otherwise; a chunk that
\* fails destroys the pipeline and what is queued is dropped.
ZipChunk ==
  /\ kind = "zip" /\ pc = "stream" /\ hasNodeStream /\ remaining > 0
  /\ wsOpen \in {"pending", "open"}
  /\ \E c \in 1..MaxChunk :
       /\ c <= remaining
       /\ LET t == createExtractBudgetTransform(c, entryBytes, extractedBytes, limits)
          IN /\ entryBytes' = t.entryBytes
             /\ extractedBytes' = t.extractedBytes
             /\ fwdEntry' = fwdEntry + t.forwarded
             /\ fwdTotal' = fwdTotal + t.forwarded
             /\ IF t.err # NoError
                  THEN /\ pc' = "cleanup" /\ err' = t.err /\ refused' = c
                       /\ remaining' = remaining
                       /\ wsQueued' = 0 /\ wsWriting' = wsWriting
                  ELSE /\ pc' = pc /\ err' = err /\ refused' = refused
                       /\ remaining' = remaining - c
                       /\ IF wsOpen = "open" /\ wsWriting = 0
                            THEN wsWriting' = t.forwarded /\ wsQueued' = wsQueued
                            ELSE wsWriting' = wsWriting /\ wsQueued' = wsQueued + t.forwarded
  /\ UNCHANGED <<params, entries, idx, curOut, entryCount, archiveRead, wsOpen, tarVars, fsVars,
                 oplog, checks, pathVars, auxVars>>

\* a write of the stream completes: its bytes are in the file, and what was
\* queued meanwhile goes out as the next write
ZipFlush ==
  /\ kind = "zip" /\ pc \in {"stream", "cleanup"} /\ wsWriting > 0
  /\ fsFiles' = PutFile(fsFiles, curOut, fsFiles[curOut].bytes + wsWriting, fsFiles[curOut].mode)
  /\ oplog' = oplog \cup {Op("write", curOut, idx)}
  /\ wsWriting' = IF pc = "stream" THEN wsQueued ELSE 0
  /\ wsQueued' = 0
  /\ UNCHANGED <<params, entries, pc, idx, curOut, remaining, entryBytes, extractedBytes,
                 entryCount, err, archiveRead, wsOpen, tarVars, fsDirs, fsLinks, checks, fwdEntry,
                 fwdTotal, refused, pathVars, auxVars>>

\* archive.ts:504-508: the source has ended, every byte is written and the
\* stream is closed: the pipeline resolves
ZipStreamEnd ==
  /\ kind = "zip" /\ pc = "stream" /\ hasNodeStream /\ remaining = 0
  /\ wsOpen = "open" /\ wsWriting = 0 /\ wsQueued = 0
  /\ wsOpen' = "none"
  /\ pc' = "chmod"
  /\ UNCHANGED <<params, entries, idx, curOut, remaining, entryBytes, extractedBytes, entryCount,
                 err, archiveRead, wsQueued, wsWriting, tarVars, fsVars, history, pathVars,
                 auxVars>>

\* archive.ts:500-502: the entry came as one Buffer; it is counted and handed
\* to the awaited fs.writeFile, which first opens the file, creating it or
\* emptying the one that is there; a directory at the path makes it reject
ZipWriteBuffer ==
  /\ kind = "zip" /\ pc = "stream" /\ ~hasNodeStream
  /\ LET size == entries[idx].size
         r == onChunkBytes(size, entryBytes, extractedBytes, limits)
     IN /\ entryBytes' = r.entryBytes
        /\ extractedBytes' = r.extractedBytes
        /\ IF r.err # NoError
             THEN /\ pc' = "cleanup" /\ err' = r.err /\ refused' = size
                  /\ UNCHANGED <<fsFiles, oplog, fwdEntry, fwdTotal, wsWriting>>
           ELSE IF curOut \in fsDirs
             THEN /\ pc' = "cleanup" /\ err' = ErrIo
                  /\ fwdEntry' = size
                  /\ fwdTotal' = fwdTotal + size
                  /\ UNCHANGED <<fsFiles, oplog, refused, wsWriting>>
           ELSE /\ fsFiles' = PutFile(fsFiles, curOut, 0, ModeAt(fsFiles, curOut))
                /\ oplog' = oplog \cup {Op("write", curOut, idx)}
                /\ fwdEntry' = size
                /\ fwdTotal' = fwdTotal + size
                /\ wsWriting' = size
                /\ pc' = "write" /\ err' = err
                /\ refused' = refused
  /\ UNCHANGED <<params, entries, idx, curOut, remaining, entryCount, archiveRead, wsOpen,
                 wsQueued, tarVars, fsDirs, fsLinks, checks, pathVars, auxVars>>

\* archive.ts:502: fs.writeFile writes the buffer into the file it opened,
\* closes it and resolves
ZipWriteFile ==
  /\ kind = "zip" /\ pc = "write"
  /\ fsFiles' = PutFile(fsFiles, curOut, wsWriting, fsFiles[curOut].mode)
  /\ wsWriting' = 0
  /\ remaining' = 0
  /\ pc' = "chmod"
  /\ UNCHANGED <<params, entries, idx, curOut, entryBytes, extractedBytes, entryCount, err,
                 archiveRead, wsOpen, wsQueued, tarVars, fsDirs, fsLinks, history, pathVars,
                 auxVars>>

\* archive.ts:515-521: the mode applied, chmod failures swallowed
ChmodApplies(perm) == perm.isNum /\ (perm.v % 512) # 0

AfterChmod(files, out, perm, ok) ==
  IF ChmodApplies(perm) /\ ok
    THEN PutFile(files, out, files[out].bytes, perm.v % 512)
    ELSE files

ChmodOps(out, perm, i) == IF ChmodApplies(perm) THEN {Op("chmod", out, i)} ELSE {}

\* a permission restore whose failure fails the extraction
ZipChmod_Throws ==
  /\ kind = "zip" /\ pc = "chmod"
  /\ oplog' = oplog \cup ChmodOps(curOut, entries[idx].perm, idx)
  /\ \E ok \in BOOLEAN :
       /\ fsFiles' = AfterChmod(fsFiles, curOut, entries[idx].perm, ok)
       /\ IF ChmodApplies(entries[idx].perm) /\ ~ok
            THEN idx' = idx /\ pc' = "failed" /\ err' = ErrIo
            ELSE idx' = idx + 1 /\ pc' = "entry" /\ err' = err
  /\ UNCHANGED <<params, entries, curOut, remaining, entryBytes, extractedBytes, entryCount,
                 archiveRead, wsVars, tarVars, fsDirs, fsLinks, checks, fwdEntry, fwdTotal, refused,
                 pathVars, auxVars>>

\* archive.ts:515-521: after the write has completed the stored permissions
\* are restored, the awaited fs.chmod failing silently, and the loop goes on
ZipChmod ==
  /\ kind = "zip" /\ pc = "chmod"
  /\ \E ok \in BOOLEAN :
       fsFiles' = AfterChmod(fsFiles, curOut, entries[idx].perm, ok)
  /\ oplog' = oplog \cup ChmodOps(curOut, entries[idx].perm, idx)
  /\ idx' = idx + 1
  /\ pc' = "entry"
  /\ UNCHANGED <<params, entries, curOut, remaining, entryBytes, extractedBytes, entryCount, err,
                 archiveRead, wsVars, tarVars, fsDirs, fsLinks, checks, fwdEntry, fwdTotal, refused,
                 pathVars, auxVars>>

\* a catch block that rethrows without removing the file
ZipCleanup_NoUnlink ==
  /\ kind = "zip" /\ pc = "cleanup"
  /\ wsOpen # "pending" /\ wsWriting = 0
  /\ pc' = "rethrow"
  /\ UNCHANGED <<params, entries, idx, curOut, remaining, entryBytes, extractedBytes, entryCount,
                 err, archiveRead, wsVars, tarVars, fsVars, history, pathVars, auxVars>>

\* archive.ts:510-512: the pipeline (or fs.writeFile) has rejected, which it
\* does once the write stream has settled its open and its write in flight:
\* the awaited fs.unlink takes the output file away, a failure (no file
\* there) being ignored.  The catch block is still waiting for it.
ZipCleanup ==
  /\ kind = "zip" /\ pc = "cleanup"
  /\ wsOpen # "pending" /\ wsWriting = 0
  /\ IF curOut \in DOMAIN fsFiles
       THEN fsFiles' = RemoveFile(fsFiles, curOut) /\ oplog' = oplog \cup {Op("unlink", curOut, idx)}
       ELSE fsFiles' = fsFiles /\ oplog' = oplog
  /\ pc' = "rethrow"
  /\ UNCHANGED <<params, entries, idx, curOut, remaining, entryBytes, extractedBytes, entryCount, err,
                 archiveRead, wsVars, tarVars, fsDirs, fsLinks, checks, fwdEntry, fwdTotal, refused,
                 pathVars, auxVars>>

\* archive.ts:512: fs.unlink has returned and the catch block rethrows: the
\* extraction rejects with the error that ended the write
ZipRethrow ==
  /\ kind = "zip" /\ pc = "rethrow"
  /\ pc' = "failed"
  /\ UNCHANGED <<params, entries, idx, curOut, remaining, entryBytes, extractedBytes, entryCount,
                 err, archiveRead, wsVars, tarVars, fsVars, history, pathVars, auxVars>>

\* archive.ts:466 and 523: no entry is left
ZipDone ==
  /\ kind = "zip" /\ pc = "entry" /\ idx > Len(entries)
  /\ pc' = "done"
  /\ UNCHANGED <<params, entries, idx, curOut, remaining, entryBytes, extractedBytes, entryCount, err,
                 archiveRead, wsVars, tarVars, fsVars, history, pathVars, auxVars>>

ZipNext ==
  \/ ZipStat
  \/ ZipLoad
  \/ ZipEntry
  \/ ZipMkdir
  \/ ZipOpen
  \/ ZipChunk
  \/ ZipFlush
  \/ ZipStreamEnd
  \/ ZipWriteBuffer
  \/ ZipWriteFile
  \/ ZipChmod
  \/ ZipCleanup
  \/ ZipRethrow
  \/ ZipDone

Spec == ZipInit /\ [][ZipNext]_vars

(***************************************************************************)
(* SpecTar: one call of extractArchive on a tar archive, archive.ts:541-618.*)
(***************************************************************************)
LinkTypes == {"SymbolicLink", "Link", "BlockDevice", "CharacterDevice", "FIFO", "Socket"}

\* the entries the decoder hands to onReadEntry.  No socket is among them: the
\* decoder (tar 7.5.11) has no entry type 'Socket', it ignores a header with
\* typeflag 's' without emitting an entry, so that the 'Socket' of
\* archive.ts:588 is never met.
TarEntryOptions ==
  { Entry(<<"a">>, "File", 1, NoPerm),
    Entry(<<"a", ".">>, "File", 3, NoPerm),
    Entry(<<"a", "/", "a">>, "File", 2, NoPerm),
    Entry(<<"a", "/">>, "Directory", 0, NoPerm),
    Entry(<<".", "/", "a">>, "File", 3, NoPerm),
    Entry(<<".", "/">>, "Directory", 0, NoPerm),
    Entry(<<".", ".", "/", "a", "a">>, "File", 1, NoPerm),
    Entry(<<"a", "/", ".", ".", "/", "a">>, "File", 1, NoPerm),
    Entry(<<"a", "/", "a", ":", "/", "a">>, "File", 1, NoPerm),
    Entry(<<"a", "\\", "a", "\\", "a">>, "File", 1, NoPerm),
    Entry(<<"a">>, "SymbolicLink", 0, NoPerm),
    Entry(<<"a", "/", "a">>, "Link", 0, NoPerm),
    Entry(<<"a", "/", "a">>, "BlockDevice", 0, NoPerm),
    Entry(<<"a", "/", "a">>, "CharacterDevice", 0, NoPerm),
    Entry(<<"a", "/", "a">>, "FIFO", 0, NoPerm) }

TarArchives == SeqsUpTo(TarEntryOptions, MaxArchiveLen)

TarResult(status, e, count, total, out, checked) ==
  [status |-> status, err |-> e, entryCount |-> count, extractedBytes |-> total,
   out |-> out, checked |-> checked]

\* a callback that adds up the declared sizes but never compares the total
onReadEntry_NoTotalCheck(entry, n, destDir, lim, count, total) ==
  LET archiveEntrySize == Max(0, entry.size)
      v1 == validateArchiveEntryPath(entry.name)
      relPath == stripArchivePath(entry.name, n)
      v2 == validateArchiveEntryPath(relPath)
      out == resolveCheckedOutPath(destDir, relPath)
      c1 == count + 1
      x1 == total + archiveEntrySize
  IN IF v1 # NoError THEN TarResult("abort", v1, count, total, Null, FALSE)
     ELSE IF relPath = Null THEN TarResult("skip", NoError, count, total, Null, FALSE)
     ELSE IF v2 # NoError THEN TarResult("abort", v2, count, total, Null, FALSE)
     ELSE IF out = Null THEN TarResult("abort", ErrEscape, count, total, Null, TRUE)
     ELSE IF entry.type \in LinkTypes THEN TarResult("abort", ErrLink, count, total, out, TRUE)
     ELSE IF c1 > lim.maxEntries THEN TarResult("abort", ErrEntryCount, c1, total, out, TRUE)
     ELSE IF archiveEntrySize > lim.maxEntryBytes
       THEN TarResult("abort", ErrEntrySize, c1, total, out, TRUE)
     ELSE TarResult("pass", NoError, c1, x1, out, TRUE)

\* onReadEntry, archive.ts:554-612: "abort" with the error handed to
\* emitter.abort, "skip" for the bare return, "pass" when it returns normally,
\* and the counters as it leaves them.
onReadEntry(entry, n, destDir, lim, count, total) ==
  LET archiveEntryPath == entry.name
      archiveEntryType == entry.type
      archiveEntrySize == Max(0, entry.size)
      v1 == validateArchiveEntryPath(archiveEntryPath)
      relPath == stripArchivePath(archiveEntryPath, n)
      v2 == validateArchiveEntryPath(relPath)
      out == resolveCheckedOutPath(destDir, relPath)
      c1 == count + 1
      x1 == total + archiveEntrySize
  IN IF v1 # NoError THEN TarResult("abort", v1, count, total, Null, FALSE)
     ELSE IF relPath = Null THEN TarResult("skip", NoError, count, total, Null, FALSE)
     ELSE IF v2 # NoError THEN TarResult("abort", v2, count, total, Null, FALSE)
     ELSE IF out = Null THEN TarResult("abort", ErrEscape, count, total, Null, TRUE)
     ELSE IF archiveEntryType \in LinkTypes THEN TarResult("abort", ErrLink, count, total, out, TRUE)
     ELSE IF c1 > lim.maxEntries THEN TarResult("abort", ErrEntryCount, c1, total, out, TRUE)
     ELSE IF archiveEntrySize > lim.maxEntryBytes
       THEN TarResult("abort", ErrEntrySize, c1, total, out, TRUE)
     ELSE IF x1 > lim.maxExtractedBytes THEN TarResult("abort", ErrTotalSize, c1, x1, out, TRUE)
     ELSE TarResult("pass", NoError, c1, x1, out, TRUE)

\* the filter callback of the unlimited variant, archive.ts:194-228: the error
\* it records in firstError for one entry, or NoError when it records none
\* (the entry is extracted or filtered out).
filterUnlimited(entry, n, destDir) ==
  LET v1 == validateArchiveEntryPath(entry.name)
      relPath == stripArchivePathUnlimited(entry.name, n)
      v2 == validateArchiveEntryPath(relPath)
  IN IF v1 # NoError THEN v1
     ELSE IF entry.type \in {"SymbolicLink", "Link"} THEN ErrLink
     ELSE IF relPath = Null THEN NoError
     ELSE IF v2 # NoError THEN v2
     ELSE IF resolveCheckedOutPath(destDir, relPath) = Null THEN ErrEscape
     ELSE NoError

TarCall ==
  /\ PathIdle
  /\ kind = "tar"
  /\ entries = <<>>
  /\ stripN \in StripValues
  /\ limits \in {resolveExtractLimits(l) : l \in SuppliedLimits}
  /\ archiveSize = 1
  /\ hasNodeStream = TRUE
  /\ pc = "open"
  /\ ExtractStart

TarInit ==
  /\ TarCall
  /\ AuxIdle

\* The errors tar.x emits by itself under strict: true (archive.ts:553), where
\* every warning of the decoder is an error that rejects the promise.
ErrBadArchive == "TAR_BAD_ARCHIVE: Unrecognized archive format"
ErrTarPath == "TAR_ENTRY_ERROR: path contains '..'"
ErrTarUnsupported == "TAR_ENTRY_UNSUPPORTED: unsupported entry type"
ErrTarInfo == "TAR_ENTRY_INFO: stripping root from absolute path"

\* the entry types the decoder writes; the others it reports as unsupported
TarSupported == {"File", "Directory", "Link", "SymbolicLink"}

\* the linkpath of the link entries of the model's archives
LinkTarget == <<LETTER, DOT>>

TarPath(status, e, out) == [status |-> status, err |-> e, out |-> out]

\* the first position from j on (counted from 0) whose character is not a
\* separator (seps) or is one (~seps)
RECURSIVE SkipFrom(_, _, _)
SkipFrom(p, j, seps) ==
  IF j < Len(p) /\ ((p[j + 1] \in {SL, BS}) = seps) THEN SkipFrom(p, j + 1, seps) ELSE j

\* the length of the root of a path that starts with a backslash, as
\* path.win32.parse finds it: the backslash, or a whole \\server\share\ prefix
UncRootLen(p) ==
  IF Len(p) = 1 \/ p[2] \notin {SL, BS} THEN 1
  ELSE LET j1 == SkipFrom(p, 2, FALSE)
       IN IF ~(j1 < Len(p) /\ j1 # 2) THEN 1
          ELSE LET j2 == SkipFrom(p, j1, TRUE)
               IN IF ~(j2 < Len(p) /\ j2 # j1) THEN 1
                  ELSE LET j3 == SkipFrom(p, j2, FALSE)
                       IN IF j3 = Len(p) THEN j3
                          ELSE IF j3 # j2 THEN j3 + 1
                          ELSE 1

\* the length of the root the decoder takes off a path (preservePaths: false,
\* archive.ts:552): a leading "/", or the root path.win32.parse finds, a
\* drive with or without a separator included, on every host
TarRootLen(p) ==
  IF p = <<>> THEN 0
  ELSE IF p[1] = SL THEN 1
  ELSE IF p[1] = BS THEN UncRootLen(p)
  ELSE IF Len(p) >= 2 /\ p[1] = LETTER /\ p[2] = COL
    THEN (IF Len(p) >= 3 /\ p[3] \in {SL, BS} THEN 3 ELSE 2)
  ELSE 0

\* the path without its roots, taken off one after the other
RECURSIVE stripAbsolutePath(_)
stripAbsolutePath(p) ==
  IF TarRootLen(p) = 0 THEN p ELSE stripAbsolutePath(Drop(p, TarRootLen(p)))

\* tar.x with strip, preservePaths: false and strict: true (archive.ts:549-
\* 553): the path the decoder gives an entry.  It splits the stored path on
\* "/" and drops an entry with fewer segments than strip; of what is left it
\* takes the root off, splits the rest on "/" and "\" alike and refuses the
\* entry when a segment is ".."; a root taken off is an error under strict,
\* but the entry is written all the same; a non-directory that resolves to
\* the destination itself is dropped.
tarCheckPath(entry, n) ==
  LET Resolved(info, segs, absolute) ==
        IF \E i \in 1..Len(segs) : segs[i] = DotDot THEN TarPath("error", ErrTarPath, Null)
        ELSE IF absolute = DestDir /\ entry.type # "Directory" THEN TarPath("drop", info, Null)
        ELSE IF entry.type \notin TarSupported
          THEN TarPath("error", IF info # NoError THEN info ELSE ErrTarUnsupported, Null)
        ELSE TarPath("ok", info, absolute)
      Rooted(kept, rel) ==
        Resolved(IF rel # kept THEN ErrTarInfo ELSE NoError,
                 SplitSlash([i \in 1..Len(rel) |-> IF rel[i] = BS THEN SL ELSE rel[i]]),
                 IF rel = <<>> THEN DestDir ELSE PathResolve(DestDir, rel))
      Unrooted(kept) == Rooted(kept, stripAbsolutePath(kept))
      Stripped(parts) ==
        IF n > 0 /\ Len(parts) < n THEN TarPath("drop", NoError, Null)
        ELSE IF entry.type = "Link" /\ n > Len(SplitSlash(LinkTarget))
          THEN TarPath("drop", NoError, Null)
        ELSE Unrooted(JoinSlash(Drop(parts, n)))
  IN Stripped(SplitSlash(entry.name))

\* the path of entry i on disk
TarOut(i) == tarCheckPath(entries[i], Max(0, stripN)).out

\* the linkpath the decoder has for a link entry: that of a hard link is
\* stripped like the path, that of a symbolic link is left as stored
TarLinkPath(type, n) ==
  IF type = "Link" THEN JoinSlash(Drop(SplitSlash(LinkTarget), n)) ELSE LinkTarget

\* the file a Link entry is linked to: its linkpath resolved in the destination
TarLinkSource ==
  LET linkpath == TarLinkPath("Link", Max(0, stripN))
  IN IF linkpath = <<>> THEN DestDir ELSE PathResolve(DestDir, linkpath)

\* the paths the decoder reserves for entry i before it touches the disk: its
\* path and, when it has one, its linkpath
TarReserved(i) ==
  LET linkpath == TarLinkPath(entries[i].type, Max(0, stripN))
  IN {TarOut(i)} \cup (IF entries[i].type \in {"Link", "SymbolicLink"} /\ linkpath # <<>>
                         THEN {PathResolve(DestDir, linkpath)} ELSE {})

\* two reservations wait for each other when they are of one path or one is
\* of a directory above the other; the destination itself is above nothing
Overlap(p, q) ==
  \/ p = q
  \/ p # DestDir /\ StartsWith(q, p \o <<SL>>)
  \/ q # DestDir /\ StartsWith(p, q \o <<SL>>)

\* entry i waits for an earlier entry that is still being written at a path
\* that is its own, above it or below it
TarBlocked(i) ==
  \E j \in 1..(i - 1) :
    /\ phase[j] \in {"handed", "piped", "created"}
    /\ \E p \in TarReserved(i), q \in TarReserved(j) : Overlap(p, q)

\* the decoder writes entry i, which it does asynchronously: the entry ends,
\* and lets the next one be emitted, only after disk work
TarAsync(i) == tarCheckPath(entries[i], Max(0, stripN)).status = "ok"

\* every entry before i ended as soon as it was read, so that entry i is
\* emitted while the parser reads its header
TarInLine(i) == \A j \in 1..(i - 1) : ~TarAsync(j)

\* entry j has ended: it is dropped or written, or it is a file piped into its
\* write stream
TarEnded(j) ==
  \/ phase[j] = "finished"
  \/ entries[j].type = "File" /\ phase[j] \in {"piped", "created"}

\* tar.x opens the archive, archive.ts:547-553
TarOpen ==
  /\ kind = "tar" /\ pc = "open"
  /\ entries' \in TarArchives
  /\ archiveRead' = TRUE
  /\ idx' = 1
  /\ pc' = "header"
  /\ phase' = [i \in 1..Len(entries') |-> "queued"]
  /\ UNCHANGED <<params, curOut, remaining, entryBytes, extractedBytes, entryCount, err, wsVars,
                 stopped, fsVars, history, pathVars, auxVars>>

\* The decoder emits the next entry, once the entry before it has ended:
\* onReadEntry runs (archive.ts:554-612) and then, whatever onReadEntry did,
\* the decoder's own listener takes the entry for writing.  emitter.abort
\* (archive.ts:610) rejects the promise and stops the parser: when the entry
\* is emitted while the parser reads its header, nothing behind the header
\* is read any more, neither the body of the entry nor a further header;
\* the entries the parser has read already, while an earlier entry waited
\* for the disk, are still emitted.
TarReadEntry ==
  /\ kind = "tar" /\ pc \in {"header", "failed"} /\ ~stopped /\ idx <= Len(entries)
  /\ idx > 1 => TarEnded(idx - 1)
  /\ LET Emit(r, u, first) ==
           /\ entryCount' = r.entryCount
           /\ extractedBytes' = r.extractedBytes
           /\ checks' = IF r.checked THEN checks \cup {[entry |-> idx, out |-> r.out]} ELSE checks
           /\ curOut' = IF r.status = "pass" THEN r.out ELSE curOut
           /\ phase' = [phase EXCEPT ![idx] = IF u.status = "ok" THEN "handed" ELSE "finished"]
           /\ stopped' = (r.status = "abort" /\ TarInLine(idx))
           /\ IF pc = "header" /\ first # NoError
                THEN pc' = "failed" /\ err' = first
                ELSE pc' = pc /\ err' = err
           /\ idx' = idx + 1
         Heard(r, u) == Emit(r, u, IF r.status = "abort" THEN r.err ELSE u.err)
     IN Heard(onReadEntry(entries[idx], Max(0, stripN), DestDir, limits, entryCount,
                          extractedBytes),
              tarCheckPath(entries[idx], Max(0, stripN)))
  /\ UNCHANGED <<params, entries, remaining, entryBytes, archiveRead, wsVars, fsVars, oplog,
                 fwdEntry, fwdTotal, refused, pathVars, auxVars>>

\* what is below a directory
Below(d) ==
  {q \in fsDirs \cup DOMAIN fsFiles \cup {l.path : l \in fsLinks} :
     q # d /\ StartsWith(q, d \o <<SL>>)}

LinkPaths == {l.path : l \in fsLinks}

\* The decoder prepares the place of entry i, one disk operation at a time.
\* It makes the missing parent directories from the top, which fails on a
\* file or a link in the way; then it removes what is at the path itself
\* unless that can be reused (a directory for a directory, a plain file that
\* has no other link for a file), which fails on a directory that is not
\* empty; then it makes the directory of a directory entry, which completes
\* it.  A file is piped into its write stream, a link is ready to be made.
TarMkdir ==
  /\ kind = "tar"
  /\ \E i \in 1..Len(entries) :
       /\ phase[i] = "handed"
       /\ ~TarBlocked(i)
       /\ LET e == entries[i]
              Place(out, parent, chain) ==
                LET missing == chain \ fsDirs
                    inTheWay == \E d \in chain : d \in DOMAIN fsFiles \cup LinkPaths
                    linked == out = TarLinkSource /\ \E l \in fsLinks : l.type = "Link"
                    reused == \/ out = DestDir
                              \/ e.type = "Directory" /\ out \in fsDirs
                              \/ e.type = "File" /\ out \in DOMAIN fsFiles /\ ~linked
                    there == out \in fsDirs \cup DOMAIN fsFiles \cup LinkPaths
                IN IF inTheWay \/ (missing = {} /\ there /\ ~reused /\ out \in fsDirs /\ Below(out) # {})
                     THEN /\ phase' = [phase EXCEPT ![i] = "finished"]
                          /\ IF pc = "header"
                               THEN pc' = "failed" /\ err' = ErrIo
                               ELSE pc' = pc /\ err' = err
                          /\ UNCHANGED <<fsVars, oplog>>
                   ELSE IF missing # {}
                     THEN /\ fsDirs' = fsDirs \cup {NextDir(fsDirs, parent)}
                          /\ oplog' = oplog \cup {Op("mkdir", NextDir(fsDirs, parent), i)}
                          /\ UNCHANGED <<fsFiles, fsLinks, phase, pc, err>>
                   ELSE IF there /\ ~reused
                     THEN /\ fsDirs' = fsDirs \ {out}
                          /\ fsFiles' = [q \in (DOMAIN fsFiles) \ {out} |-> fsFiles[q]]
                          /\ fsLinks' = {l \in fsLinks : l.path # out}
                          /\ oplog' = oplog \cup {Op(IF out \in fsDirs THEN "rmdir" ELSE "unlink", out, i)}
                          /\ UNCHANGED <<phase, pc, err>>
                   ELSE IF e.type = "Directory"
                     THEN /\ fsDirs' = fsDirs \cup {out}
                          /\ oplog' = oplog \cup (IF out \in fsDirs THEN {} ELSE {Op("mkdir", out, i)})
                          /\ phase' = [phase EXCEPT ![i] = "finished"]
                          /\ UNCHANGED <<fsFiles, fsLinks, pc, err>>
                   ELSE /\ phase' = [phase EXCEPT ![i] = "piped"]
                        /\ UNCHANGED <<fsVars, oplog, pc, err>>
              Parent(out, parent) == Place(out, parent, DirChain(parent))
              At(out) == Parent(out, IF out = DestDir THEN DestDir ELSE PathDirname(out))
          IN At(TarOut(i))
  /\ UNCHANGED <<params, entries, idx, curOut, remaining, entryBytes, extractedBytes, entryCount,
                 archiveRead, wsVars, stopped, checks, fwdEntry, fwdTotal, refused, pathVars,
                 auxVars>>

\* The decoder creates entry i at its path: the write stream of a file opens,
\* leaving an empty file; a symbolic link is made whatever it points at; a
\* hard link is made when the file it points at is there.
TarCreate ==
  /\ kind = "tar"
  /\ \E i \in 1..Len(entries) :
       /\ phase[i] = "piped"
       /\ LET e == entries[i]
              At(out) ==
                IF e.type = "File"
                  THEN /\ fsFiles' = PutFile(fsFiles, out, 0, ModeAt(fsFiles, out))
                       /\ oplog' = oplog \cup {Op("write", out, i)}
                       /\ phase' = [phase EXCEPT ![i] = "created"]
                       /\ UNCHANGED <<fsLinks, pc, err>>
                ELSE IF e.type = "Link" /\ TarLinkSource \notin DOMAIN fsFiles
                  THEN /\ phase' = [phase EXCEPT ![i] = "finished"]
                       /\ IF pc = "header"
                            THEN pc' = "failed" /\ err' = ErrIo
                            ELSE pc' = pc /\ err' = err
                       /\ UNCHANGED <<fsFiles, fsLinks, oplog>>
                ELSE /\ fsLinks' = fsLinks \cup {[path |-> out, type |-> e.type]}
                     /\ oplog' = oplog \cup {Op("link", out, i)}
                     /\ phase' = [phase EXCEPT ![i] = "finished"]
                     /\ UNCHANGED <<fsFiles, pc, err>>
          IN At(TarOut(i))
  /\ UNCHANGED <<params, entries, idx, curOut, remaining, entryBytes, extractedBytes, entryCount,
                 archiveRead, wsVars, stopped, fsDirs, checks, fwdEntry, fwdTotal, refused,
                 pathVars, auxVars>>

\* the bytes of file entry i reach the disk and its write stream closes.  The
\* bytes of an entry that stopped the parser never come: its file stays empty.
TarWrite ==
  /\ kind = "tar"
  /\ \E i \in 1..Len(entries) :
       /\ phase[i] = "created"
       /\ ~(stopped /\ i = idx - 1)
       /\ LET At(out) ==
                /\ fsFiles' = PutFile(fsFiles, out, entries[i].size, fsFiles[out].mode)
                /\ oplog' = oplog \cup {Op("write", out, i)}
          IN At(TarOut(i))
       /\ phase' = [phase EXCEPT ![i] = "finished"]
  /\ UNCHANGED <<params, entries, pc, idx, curOut, remaining, entryBytes, extractedBytes,
                 entryCount, err, archiveRead, wsVars, stopped, fsDirs, fsLinks, checks, fwdEntry,
                 fwdTotal, refused, pathVars, auxVars>>

\* The archive is exhausted and every entry is written: tar.x resolves,
\* archive.ts:617.  An archive in which the decoder found no entry at all it
\* rejects as unrecognized.
TarEnd ==
  /\ kind = "tar" /\ pc = "header" /\ idx > Len(entries)
  /\ \A i \in 1..Len(entries) : phase[i] = "finished"
  /\ IF Len(entries) = 0
       THEN pc' = "failed" /\ err' = ErrBadArchive
       ELSE pc' = "done" /\ err' = err
  /\ UNCHANGED <<params, entries, idx, curOut, remaining, entryBytes, extractedBytes,
                 entryCount, archiveRead, wsVars, tarVars, fsVars, history, pathVars, auxVars>>

TarNext ==
  \/ TarOpen
  \/ TarReadEntry
  \/ TarMkdir
  \/ TarCreate
  \/ TarWrite
  \/ TarEnd

SpecTar == TarInit /\ [][TarNext]_vars

(***************************************************************************)
(* SpecExtract: a call of either extractor.                                *)
(***************************************************************************)
ExtractInit == ZipInit \/ TarInit

ExtractNext ==
  \/ ZipStat
  \/ ZipLoad
  \/ ZipEntry
  \/ ZipMkdir
  \/ ZipOpen
  \/ ZipChunk
  \/ ZipFlush
  \/ ZipStreamEnd
  \/ ZipWriteBuffer
  \/ ZipWriteFile
  \/ ZipChmod
  \/ ZipCleanup
  \/ ZipRethrow
  \/ ZipDone
  \/ TarOpen
  \/ TarReadEntry
  \/ TarMkdir
  \/ TarCreate
  \/ TarWrite
  \/ TarEnd

SpecExtract == ExtractInit /\ [][ExtractNext]_vars

ExtractIdle ==
  /\ kind = "none"
  /\ entries = <<>>
  /\ stripN = 0
  /\ limits = resolveExtractLimits(NoLimits)
  /\ archiveSize = 0
  /\ hasNodeStream = TRUE
  /\ pc = "idle"
  /\ ExtractStart

(***************************************************************************)
(* SpecPath: the pure path functions applied to every stored path of the   *)
(* bounded alphabet, in the order the extractors call them.                *)
(***************************************************************************)
PathInit ==
  /\ ExtractIdle
  /\ AuxIdle
  /\ pPath \in AllPaths
  /\ pStrip \in StripValues
  /\ pValid = Unset
  /\ pRel = UnsetPath
  /\ pRelValid = Unset
  /\ pOut = UnsetPath

\* validateArchiveEntryPath(entry.name), archive.ts:467
PValidate ==
  /\ pValid = Unset
  /\ pValid' = validateArchiveEntryPath(pPath)
  /\ UNCHANGED <<pPath, pStrip, pRel, pRelValid, pOut, extractVars, auxVars>>

\* stripArchivePath(entry.name, strip), archive.ts:469
PStrip ==
  /\ pRel = UnsetPath
  /\ pRel' = stripArchivePath(pPath, pStrip)
  /\ UNCHANGED <<pPath, pStrip, pValid, pRelValid, pOut, extractVars, auxVars>>

\* validateArchiveEntryPath(relPath), archive.ts:473
PValidateStripped ==
  /\ pRel \notin {UnsetPath, Null}
  /\ pRelValid = Unset
  /\ pRelValid' = validateArchiveEntryPath(pRel)
  /\ UNCHANGED <<pPath, pStrip, pValid, pRel, pOut, extractVars, auxVars>>

\* resolveCheckedOutPath(destDir, relPath, entry.name), archive.ts:475
PResolve ==
  /\ pRel \notin {UnsetPath, Null}
  /\ pOut = UnsetPath
  /\ pOut' = resolveCheckedOutPath(DestDir, pRel)
  /\ UNCHANGED <<pPath, pStrip, pValid, pRel, pRelValid, extractVars, auxVars>>

PathNext ==
  \/ PValidate
  \/ PStrip
  \/ PValidateStripped
  \/ PResolve

SpecPath == PathInit /\ [][PathNext]_vars

(***************************************************************************)
(* SpecLimits: resolveExtractLimits applied to every combination of        *)
(* supplied values, archive.ts:409-425.                                    *)
(***************************************************************************)
MaxLimitTwice == 3

LimitValues ==
  {NotSet, NaN, PosInfinity, NegInfinity, NotNumber}
    \cup {[t |-> "number", twice |-> k] : k \in (0 - MaxLimitTwice)..MaxLimitTwice}

LimInit ==
  /\ PathIdle
  /\ ExtractIdle
  /\ KindIdle
  /\ RaceIdle
  /\ ConcIdle
  /\ RootIdle
  /\ lSupplied \in [maxArchiveBytes : LimitValues, maxEntries : LimitValues,
                     maxExtractedBytes : LimitValues, maxEntryBytes : LimitValues]
  /\ lResolved = resolveExtractLimits(NoLimits)
  /\ lPc = "supplied"

\* const limits = resolveExtractLimits(params.limits), archive.ts:449 and 542
LimResolve ==
  /\ lPc = "supplied"
  /\ lResolved' = resolveExtractLimits(lSupplied)
  /\ lPc' = "resolved"
  /\ UNCHANGED <<lSupplied, limOthers>>

LimNext ==
  \/ LimResolve

SpecLimits == LimInit /\ [][LimNext]_vars

(***************************************************************************)
(* SpecKind: the start of extractArchive, archive.ts:293-304 and 535-538.  *)
(* A file name is a stem followed by an ending.                            *)
(***************************************************************************)
MaxStemLen == 1

\* String.prototype.toLowerCase on the letters of the model
LowerChar(c) ==
  CASE c = "Z" -> "z" [] c = "I" -> "i" [] c = "P" -> "p" [] c = "T" -> "t"
    [] c = "A" -> "a" [] c = "R" -> "r" [] c = "G" -> "g" [] OTHER -> c

toLowerCase(str) == [i \in 1..Len(str) |-> LowerChar(str[i])]

\* String.prototype.endsWith
endsWith(str, suffix) ==
  /\ Len(str) >= Len(suffix)
  /\ SubSeq(str, Len(str) - Len(suffix) + 1, Len(str)) = suffix

ZipSuffix == <<".", "z", "i", "p">>

\* TAR_SUFFIXES, archive.ts:293
TAR_SUFFIXES ==
  { <<".", "t", "g", "z">>, <<".", "t", "a", "r", ".", "g", "z">>, <<".", "t", "a", "r">> }

\* a resolution that compares the name as it is written
resolveArchiveKind_CaseSensitive(filePath) ==
  IF endsWith(filePath, ZipSuffix) THEN "zip"
  ELSE IF \E suffix \in TAR_SUFFIXES : endsWith(filePath, suffix) THEN "tar"
  ELSE "null"

\* resolveArchiveKind, archive.ts:295-304
resolveArchiveKind(filePath) ==
  LET lower == toLowerCase(filePath)
  IN IF endsWith(lower, ZipSuffix) THEN "zip"
     ELSE IF \E suffix \in TAR_SUFFIXES : endsWith(lower, suffix) THEN "tar"
     ELSE "null"

ErrUnsupported == "unsupported archive"

NameStems == SeqsUpTo({"a", "."}, MaxStemLen)

NameEndings ==
  { <<>>,
    <<".", "z", "i", "p">>, <<".", "Z", "I", "P">>, <<".", "Z", "i", "p">>,
    <<"z", "i", "p">>, <<".", "z", "i">>, <<".", "z", "i", "p", "x">>,
    <<".", "z", "i", "p", ".">>,
    <<".", "t", "a", "r">>, <<".", "T", "A", "R">>, <<"t", "a", "r">>,
    <<".", "t", "a", "r", ".", "g", "z">>, <<".", "T", "a", "r", ".", "G", "Z">>,
    <<".", "t", "a", "r", ".", "g">>, <<".", "g", "z">>,
    <<".", "t", "g", "z">>, <<".", "T", "G", "Z">>, <<".", "t", "g">>,
    <<".", "t", "a", "r", ".", "z", "i", "p">>, <<".", "z", "i", "p", ".", "t", "a", "r">>,
    <<".", "z", "i", "p", ".", "g", "z">>, <<".", "t", "x", "t">> }

FileNames == {stem \o ending : stem \in NameStems, ending \in NameEndings}

KindInit ==
  /\ PathIdle
  /\ ExtractIdle
  /\ LimIdle
  /\ RaceIdle
  /\ ConcIdle
  /\ RootIdle
  /\ kPath \in FileNames
  /\ kParam \in {"undefined", "zip", "tar"}
  /\ kKind = Unset
  /\ kPc = "called"
  /\ kErr = NoError

\* const kind = params.kind ?? resolveArchiveKind(params.archivePath), archive.ts:535
KindResolve ==
  /\ kPc = "called" /\ kKind = Unset
  /\ kKind' = IF kParam # "undefined" THEN kParam ELSE resolveArchiveKind(kPath)
  /\ UNCHANGED <<kPath, kParam, kPc, kErr, kindOthers>>

\* archive.ts:536-538: no kind, no extraction
KindUnsupported ==
  /\ kPc = "called" /\ kKind = "null"
  /\ kPc' = "failed"
  /\ kErr' = ErrUnsupported
  /\ UNCHANGED <<kPath, kParam, kKind, kindOthers>>

\* archive.ts:541 and 620: the extractor of the kind is started
KindDispatch ==
  /\ kPc = "called" /\ kKind \in {"zip", "tar"}
  /\ kPc' = kKind
  /\ UNCHANGED <<kPath, kParam, kKind, kErr, kindOthers>>

KindNext ==
  \/ KindResolve
  \/ KindUnsupported
  \/ KindDispatch

SpecKind == KindInit /\ [][KindNext]_vars

(***************************************************************************)
(* SpecRace: extractArchive, archive.ts:540-629: the extraction raced      *)
(* against a timer by withTimeout, archive.ts:329-350.  The extraction is  *)
(* not cancelled by the timer and goes on after it.                        *)
(***************************************************************************)
TimeoutValues == {2}

\* archive.ts:540
Label == IF kind = "zip" THEN "extract zip" ELSE "extract tar"

ErrTimedOut == "timed out after"

OpSettled == pc \in {"done", "failed"}

RaceInit ==
  /\ ZipCall \/ TarCall
  /\ LimIdle
  /\ KindIdle
  /\ ConcIdle
  /\ RootIdle
  /\ tTimer = "armed"
  /\ tOutcome = "pending"
  /\ tErr = NotSettled
  /\ tMs \in TimeoutValues
  /\ tSeen = FALSE
  /\ tSettles = 0
  /\ tUntouched = FALSE

\* a race in which whatever settles last wins
RaceSettle_LastWins ==
  /\ OpSettled /\ ~tSeen
  /\ tSeen' = TRUE
  /\ tOutcome' = IF pc = "done" THEN "resolved" ELSE "rejected"
  /\ tErr' = Settled(err, "", 0)
  /\ tSettles' = tSettles + 1
  /\ tTimer' = IF tTimer = "armed" THEN "cleared" ELSE tTimer
  /\ UNCHANGED <<tMs, tUntouched, extractVars, raceOthers>>

\* archive.ts:336-348: the extraction's promise settles; Promise.race takes it
\* when nothing has settled yet, and the finally block clears the timer
RaceSettle ==
  /\ OpSettled /\ ~tSeen
  /\ tSeen' = TRUE
  /\ IF tOutcome = "pending"
       THEN /\ tOutcome' = IF pc = "done" THEN "resolved" ELSE "rejected"
            /\ tErr' = Settled(err, "", 0)
            /\ tSettles' = tSettles + 1
            /\ tTimer' = "cleared"
       ELSE UNCHANGED <<tOutcome, tErr, tSettles, tTimer>>
  /\ UNCHANGED <<tMs, tUntouched, extractVars, raceOthers>>

\* a timer that cancels the extraction when it fires
TimerFire_Cancels ==
  /\ tTimer = "armed"
  /\ ~(OpSettled /\ ~tSeen)
  /\ tTimer' = "fired"
  /\ IF tOutcome = "pending"
       THEN /\ tOutcome' = "timeout"
            /\ tErr' = Settled(ErrTimedOut, Label, tMs)
            /\ tSettles' = tSettles + 1
            /\ tUntouched' = (oplog = {})
       ELSE UNCHANGED <<tOutcome, tErr, tSettles, tUntouched>>
  /\ pc' = "failed"
  /\ tSeen' = TRUE
  /\ UNCHANGED <<tMs, params, entries, idx, curOut, remaining, entryBytes, extractedBytes,
                 entryCount, err, archiveRead, wsVars, tarVars, fsVars, history, raceOthers>>

\* archive.ts:339-342: the timer fires and rejects.  Promise reactions run
\* before the next timer, so a settled extraction is seen first.  tUntouched
\* remembers whether the extraction had touched the filesystem by then.
TimerFire ==
  /\ tTimer = "armed"
  /\ ~(OpSettled /\ ~tSeen)
  /\ tTimer' = "fired"
  /\ IF tOutcome = "pending"
       THEN /\ tOutcome' = "timeout"
            /\ tErr' = Settled(ErrTimedOut, Label, tMs)
            /\ tSettles' = tSettles + 1
            /\ tUntouched' = (oplog = {})
       ELSE UNCHANGED <<tOutcome, tErr, tSettles, tUntouched>>
  /\ UNCHANGED <<tMs, tSeen, extractVars, raceOthers>>

RaceNext ==
  \/ ZipStat
  \/ ZipLoad
  \/ ZipEntry
  \/ ZipMkdir
  \/ ZipOpen
  \/ ZipChunk
  \/ ZipFlush
  \/ ZipStreamEnd
  \/ ZipWriteBuffer
  \/ ZipWriteFile
  \/ ZipChmod
  \/ ZipCleanup
  \/ ZipRethrow
  \/ ZipDone
  \/ TarOpen
  \/ TarReadEntry
  \/ TarMkdir
  \/ TarCreate
  \/ TarWrite
  \/ TarEnd
  \/ RaceSettle
  \/ TimerFire

SpecRace == RaceInit /\ [][RaceNext]_vars

(***************************************************************************)
(* SpecConc: two extraction calls at once, of different archives into      *)
(* different directories.  A step is what one call does between two awaits *)
(* (zip) or one onReadEntry callback (tar).  The archives hold flat files  *)
(* of distinct directories, so the filesystem never fails a call.          *)
(***************************************************************************)
DestDirOf(c) == IF c = 1 THEN DestDir ELSE <<SL, LETTER, DOT>>

ConcEntryOptions ==
  { Entry(<<"a">>, "File", 1, NoPerm),
    Entry(<<"a", ".">>, "File", 2, NoPerm),
    Entry(<<".", "/">>, "Directory", 0, NoPerm) }

ConcArchives(k) ==
  IF k = "zip" THEN {a \in SeqsUpTo(ConcEntryOptions, MaxArchiveLen) : DistinctNames(a)}
  ELSE SeqsUpTo(ConcEntryOptions, MaxArchiveLen)

ConcLimits ==
  resolveExtractLimits([maxArchiveBytes |-> NotSet, maxEntries |-> Num(2),
                        maxExtractedBytes |-> Num(3), maxEntryBytes |-> Num(2)])

ConcInit ==
  /\ PathIdle
  /\ ExtractIdle
  /\ LimIdle
  /\ KindIdle
  /\ RaceIdle
  /\ RootIdle
  /\ \E k1, k2 \in {"zip", "tar"} :
       \E a1 \in ConcArchives(k1), a2 \in ConcArchives(k2) :
         calls = [c \in Calls |->
                    Call(IF c = 1 THEN k1 ELSE k2, IF c = 1 THEN a1 ELSE a2,
                         "start", 0, 0, 0, 0, 0, NoError)]

\* one total shared by the calls in flight
ExtractedBytesOf_Shared(cs, c) == cs[1].extractedBytes + cs[2].extractedBytes

\* let extractedBytes = 0, archive.ts:464 and 545: a local of the call
ExtractedBytesOf(cs, c) == cs[c].extractedBytes

\* let entryCount = 0, archive.ts:544: a local of the call
EntryCountOf(cs, c) == cs[c].entryCount

\* archive.ts:457-464 and 542-545
ConcStart(c) ==
  /\ calls[c].pc = "start"
  /\ LET me == calls[c]
     IN calls' = [calls EXCEPT ![c] =
          IF me.kind = "zip" /\ Len(me.entries) > ConcLimits.maxEntries
            THEN [me EXCEPT !.pc = "failed", !.err = ErrEntryCount]
            ELSE [me EXCEPT !.pc = "entry", !.idx = 1]]
  /\ UNCHANGED concOthers

\* archive.ts:466-497
ConcZipEntry(c) ==
  /\ calls[c].kind = "zip" /\ calls[c].pc = "entry" /\ calls[c].idx <= Len(calls[c].entries)
  /\ LET me == calls[c]
         e == me.entries[me.idx]
         r == ZipResolveEntry(e.name, 0, DestDirOf(c))
     IN calls' = [calls EXCEPT ![c] =
          IF r.status = "throw" THEN [me EXCEPT !.pc = "failed", !.err = r.err]
          ELSE IF r.status = "skip" \/ e.type = "Directory" THEN [me EXCEPT !.idx = me.idx + 1]
          ELSE [me EXCEPT !.pc = "stream", !.entryBytes = 0, !.remaining = e.size]]
  /\ UNCHANGED concOthers

\* archive.ts:483-492 and 504-513: one chunk; the entry ends with its last chunk
ConcZipChunk(c) ==
  /\ calls[c].kind = "zip" /\ calls[c].pc = "stream"
  /\ \E n \in 1..MaxChunk :
       /\ n <= calls[c].remaining
       /\ LET me == calls[c]
              r == onChunkBytes(n, me.entryBytes, ExtractedBytesOf(calls, c), ConcLimits)
              counted == [me EXCEPT !.entryBytes = r.entryBytes,
                                    !.extractedBytes = r.extractedBytes]
          IN calls' = [calls EXCEPT ![c] =
               IF r.err # NoError THEN [counted EXCEPT !.pc = "failed", !.err = r.err]
               ELSE IF me.remaining = n
                 THEN [counted EXCEPT !.remaining = 0, !.pc = "entry", !.idx = me.idx + 1]
               ELSE [counted EXCEPT !.remaining = me.remaining - n]]
  /\ UNCHANGED concOthers

\* every entry of the call before the one at idx ended as soon as it was read:
\* none is written by the decoder
ConcInLine(me) ==
  \A j \in 1..(me.idx - 1) : tarCheckPath(me.entries[j], 0).status # "ok"

\* archive.ts:554-612: one onReadEntry callback.  After emitter.abort the
\* decoder reads no further header, but it still emits the entries whose
\* headers it read while an earlier entry waited for the disk.
ConcTarEntry(c) ==
  /\ calls[c].kind = "tar" /\ calls[c].pc \in {"entry", "failed"}
  /\ calls[c].idx <= Len(calls[c].entries)
  /\ LET me == calls[c]
         r == onReadEntry(me.entries[me.idx], 0, DestDirOf(c), ConcLimits,
                          EntryCountOf(calls, c), ExtractedBytesOf(calls, c))
         counted == [me EXCEPT !.entryCount = r.entryCount,
                               !.extractedBytes = r.extractedBytes]
     IN calls' = [calls EXCEPT ![c] =
          IF r.status = "abort"
            THEN [counted EXCEPT !.pc = "failed",
                                 !.err = IF me.pc = "failed" THEN me.err ELSE r.err,
                                 !.idx = IF ConcInLine(me) THEN Len(me.entries) + 1
                                         ELSE me.idx + 1]
          ELSE [counted EXCEPT !.idx = me.idx + 1]]
  /\ UNCHANGED concOthers

\* archive.ts:523 and 617; tar.x rejects an archive without any entry
ConcDone(c) ==
  /\ calls[c].pc = "entry" /\ calls[c].idx > Len(calls[c].entries)
  /\ calls' = [calls EXCEPT ![c] =
       IF calls[c].kind = "tar" /\ Len(calls[c].entries) = 0
         THEN [calls[c] EXCEPT !.pc = "failed", !.err = ErrBadArchive]
         ELSE [calls[c] EXCEPT !.pc = "done"]]
  /\ UNCHANGED concOthers

ConcNext ==
  \/ \E c \in Calls : ConcStart(c)
  \/ \E c \in Calls : ConcZipEntry(c)
  \/ \E c \in Calls : ConcZipChunk(c)
  \/ \E c \in Calls : ConcTarEntry(c)
  \/ \E c \in Calls : ConcDone(c)

SpecConc == ConcInit /\ [][ConcNext]_vars

(***************************************************************************)
(* SpecRoot: resolvePackedRootDir, archive.ts:306-327, on every layout of  *)
(* the top of extractDir: each name is absent, a file or a directory.      *)
(***************************************************************************)
ExtractDir == <<SL, "x">>

\* path.join(extractDir, name)
PathJoin(dir, name) == dir \o <<SL, name>>

Layouts == [TopNames -> {"absent", "file", "dir"}]

ErrLayout == "unexpected archive layout"

RootInit ==
  /\ PathIdle
  /\ ExtractIdle
  /\ LimIdle
  /\ KindIdle
  /\ RaceIdle
  /\ ConcIdle
  /\ rLayout \in Layouts
  /\ rPc = "stat"
  /\ rResult = Null
  /\ rErr = NoError

\* a start that never looks for the directory named package
RootStat_NoDirect ==
  /\ rPc = "stat"
  /\ rPc' = "readdir" /\ rResult' = rResult
  /\ UNCHANGED <<rLayout, rErr, rootOthers>>

\* archive.ts:307-316: stat of extractDir/package; a failure is ignored
RootStat ==
  /\ rPc = "stat"
  /\ IF rLayout["package"] = "dir"
       THEN rPc' = "returned" /\ rResult' = PathJoin(ExtractDir, "package")
       ELSE rPc' = "readdir" /\ rResult' = rResult
  /\ UNCHANGED <<rLayout, rErr, rootOthers>>

\* a listing that takes any directory when there is at least one
RootReaddir_AnyDir ==
  /\ rPc = "readdir"
  /\ LET dirs == {n \in TopNames : rLayout[n] = "dir"}
     IN IF dirs = {}
          THEN rPc' = "failed" /\ rErr' = ErrLayout /\ rResult' = rResult
          ELSE /\ rPc' = "returned" /\ rErr' = rErr
               /\ \E onlyDir \in dirs : rResult' = PathJoin(ExtractDir, onlyDir)
  /\ UNCHANGED <<rLayout, rootOthers>>

\* archive.ts:318-326: the directories at the top; exactly one is returned
RootReaddir ==
  /\ rPc = "readdir"
  /\ LET dirs == {n \in TopNames : rLayout[n] = "dir"}
     IN IF Cardinality(dirs) # 1
          THEN rPc' = "failed" /\ rErr' = ErrLayout /\ rResult' = rResult
          ELSE /\ rPc' = "returned" /\ rErr' = rErr
               /\ \E onlyDir \in dirs : rResult' = PathJoin(ExtractDir, onlyDir)
  /\ UNCHANGED <<rLayout, rootOthers>>

RootNext ==
  \/ RootStat
  \/ RootReaddir

SpecRoot == RootInit /\ [][RootNext]_vars

(***************************************************************************)
(* SpecInto: extractZip into a destDir that holds a file of an earlier     *)
(* extraction (entry 0 of the history), archive.ts:443-523.                *)
(***************************************************************************)
EarlierFile == DestDir \o <<SL, LETTER>>

IntoInit ==
  /\ PathIdle
  /\ AuxIdle
  /\ kind = "zip"
  /\ entries = <<>>
  /\ stripN \in StripValues
  /\ limits \in {resolveExtractLimits(l) : l \in SuppliedLimits}
  /\ archiveSize = 1
  /\ hasNodeStream \in BOOLEAN
  /\ pc = "stat"
  /\ idx = 0 /\ curOut = Null /\ remaining = 0
  /\ entryBytes = 0 /\ extractedBytes = 0 /\ entryCount = 0
  /\ err = NoError /\ archiveRead = FALSE
  /\ wsOpen = "none" /\ wsQueued = 0 /\ wsWriting = 0
  /\ phase = <<>> /\ stopped = FALSE
  /\ fsDirs = {Root, DestDir}
  /\ \E f \in {EarlierFile, EarlierFile \o <<DOT>>} :
       /\ fsFiles = PutFile(NoFiles, f, 3, 384)
       /\ oplog = {Op("write", f, 0)}
  /\ fsLinks = {}
  /\ checks = {} /\ fwdEntry = 0 /\ fwdTotal = 0 /\ refused = 0

SpecInto == IntoInit /\ [][ZipNext]_vars

(***************************************************************************)
(* Properties.                                                             *)
(***************************************************************************)
\* the stored path with "\" read as "/" and collapsed lexically
NormalizedForm(p) == PosixNormalize([i \in 1..Len(p) |-> IF p[i] = BS THEN SL ELSE p[i]])

\* one letter, a colon, then a slash or a backslash
HasDrivePrefix(p) == Len(p) >= 3 /\ p[1] = LETTER /\ p[2] = COL /\ p[3] \in {SL, BS}

Segments(p) == {SplitSlash(p)[i] : i \in 1..Len(SplitSlash(p))}

\* p is a resolved path strictly below DestDir: "/a/" and then segments that
\* are neither empty nor "." nor ".."
StrictlyBelowDest(p) ==
  /\ Len(p) > Len(DestDir) + 1
  /\ SubSeq(p, 1, Len(DestDir) + 1) = DestDir \o <<SL>>
  /\ Segments(SubSeq(p, Len(DestDir) + 2, Len(p))) \cap {<<>>, <<DOT>>, DotDot} = {}

Written(i) == \E o \in oplog : o.entry = i

\* the entry at which the tar callback aborts first, run over the entries from
\* i on under the strip and limits of the call; 0 when it aborts at none
RECURSIVE TarAbortIndex(_, _, _)
TarAbortIndex(i, count, total) ==
  IF i > Len(entries) THEN 0
  ELSE LET r == onReadEntry(entries[i], Max(0, stripN), DestDir, limits, count, total)
       IN IF r.status = "abort" THEN i
          ELSE TarAbortIndex(i + 1, r.entryCount, r.extractedBytes)

\* the entry an extraction failed at: the one the zip loop is at, the first
\* one the tar callback aborted at
FailedEntry == IF kind = "tar" THEN TarAbortIndex(1, 0, 0) ELSE idx

\* entry i has gone through the per-entry checks
Processed(i) ==
  /\ i \in 1..Len(entries)
  /\ \/ idx > i
     \/ idx = i /\ pc \in {"failed", "mkdir", "stream", "write", "chmod", "cleanup", "rethrow"}

\* C1: every filesystem mutation of a zip extraction (directory made, file
\* written, chmod, unlink) is on a path strictly below destDir, and follows a
\* containment check made for the same entry on the path it is made for.
C1_ZipMutationsContained ==
  kind = "zip" =>
    \A o \in oplog :
      /\ StrictlyBelowDest(o.path)
      /\ \E c \in checks :
           /\ c.entry = o.entry
           /\ c.out # Null
           /\ o.path \in DirChain(c.out)

C1_Witness ==
  /\ kind = "zip"
  /\ \A k \in {"mkdir", "write", "chmod", "unlink"} : \E o \in oplog : o.op = k

\* C2: a stored path whose normalized form is ".." or starts with "../" is
\* refused by the validator with the escape error (with the drive error when
\* it also has a drive prefix, which is tested first).
C2_EscapeRejected ==
  (pValid # Unset /\ (NormalizedForm(pPath) = DotDot
                       \/ StartsWith(NormalizedForm(pPath), <<DOT, DOT, SL>>)))
    => pValid = (IF HasDrivePrefix(pPath) THEN ErrDrive ELSE ErrEscape)

C2_Witness ==
  /\ pValid = ErrEscape
  /\ pPath = <<DOT, BS, DOT, DOT, BS, LETTER>>

\* C3: a path with a drive prefix is refused with the drive error, whether the
\* separator is "/" or "\" and whatever its normalized form is; the same
\* holds of a stripped path.
C3_DrivePathRejected ==
  /\ (pValid # Unset /\ HasDrivePrefix(pPath)) => pValid = ErrDrive
  /\ (pRelValid # Unset /\ HasDrivePrefix(pRel)) => pRelValid = ErrDrive

C3_Witness ==
  /\ pValid = ErrDrive
  /\ pPath = <<"a", ":", BS, ".", ".">>

\* C4: a path whose normalized form starts with "/" (so also one that starts
\* with "//" or with backslashes) is refused by the validator.
C4_AbsoluteRejected ==
  (pValid # Unset /\ StartsWith(NormalizedForm(pPath), <<SL>>)) => pValid = ErrAbsolute

C4_Witness ==
  /\ pValid = ErrAbsolute
  /\ StartsWith(pPath, <<BS, BS, LETTER>>)

\* C5: an entry is written (zip) or written by the decoder (tar) only if its
\* stored path and its stripped path both pass the validator; an entry whose
\* stored path passes and whose stripped path does not fails the extraction
\* and is not written.
C5_BothPathsValidated ==
  \A i \in 1..Len(entries) :
    LET name == entries[i].name
        rel == stripArchivePath(name, stripN)
    IN /\ Written(i)
            => /\ validateArchiveEntryPath(name) = NoError
               /\ rel # Null
               /\ validateArchiveEntryPath(rel) = NoError
       /\ (Processed(i) /\ validateArchiveEntryPath(name) = NoError /\ rel # Null
             /\ validateArchiveEntryPath(rel) # NoError)
            => /\ pc = "failed"
               /\ ~Written(i)

\* C6: a tar entry whose declared type is a link, a device, a FIFO or a socket
\* fails the extraction at that entry, whatever its path and stripComponents.
\* (Of these types the callback is handed all but the socket.)
C6_LinkAlwaysRejected ==
  \A i \in 1..Len(entries) :
    (kind = "tar" /\ Processed(i) /\ entries[i].type \in LinkTypes)
      => pc = "failed"

\* an entry that breaks a path rule or a type rule
Violating(i) ==
  LET name == entries[i].name
      rel == stripArchivePath(name, stripN)
  IN \/ validateArchiveEntryPath(name) # NoError
     \/ kind = "tar" /\ entries[i].type \in LinkTypes
     \/ rel # Null /\ validateArchiveEntryPath(rel) # NoError

\* C7: in both extractors the first entry that breaks a path rule or a type
\* rule fails the extraction there: it is not skipped, and no later entry is
\* processed or written.
C7_FirstViolationAborts ==
  \A i \in 1..Len(entries) :
    (Processed(i) /\ Violating(i))
      => /\ pc = "failed"
         /\ \A o \in oplog : o.entry <= i

\* C8: an archive with more entries than maxEntries never extracts
\* successfully, and nothing of an entry beyond the first maxEntries is
\* written.
C8_CountLimitOnAllEntries ==
  (archiveRead /\ Len(entries) > limits.maxEntries)
    => /\ pc # "done"
       /\ \A o \in oplog : o.entry <= limits.maxEntries

ByteLimitErrors == {ErrEntrySize, ErrTotalSize}

\* C9: when a zip extraction has failed on a byte limit, no file is left at
\* the output path of the entry that was being written.
C9_PartialFileRemoved ==
  (kind = "zip" /\ pc = "failed" /\ err \in ByteLimitErrors)
    => /\ curOut = PathResolve(DestDir, stripArchivePath(entries[idx].name, stripN))
       /\ curOut \notin DOMAIN fsFiles

C9_Witness ==
  /\ kind = "zip"
  /\ pc = "failed"
  /\ err = ErrEntrySize
  /\ fwdEntry > 0
  /\ Op("unlink", curOut, idx) \in oplog

\* C10 as stated: the bytes handed to the writer stay within both limits and
\* the running total counter equals them at every moment.
C10_CounterEqualsForwarded ==
  kind = "zip"
    => /\ fwdEntry <= limits.maxEntryBytes
       /\ fwdTotal <= limits.maxExtractedBytes
       /\ extractedBytes = fwdTotal

\* C10, amended: the bytes handed to the writer stay within both limits and
\* are the bytes in the output file together with those the write stream
\* (or fs.writeFile) still holds; the running total counter equals them until a limit is
\* exceeded; the chunk that exceeds a limit is counted (in the entry counter,
\* and in the total unless the entry limit threw first) but never handed to
\* the writer.
C10_BudgetFailFast ==
  kind = "zip"
    => /\ fwdEntry <= limits.maxEntryBytes
       /\ fwdTotal <= limits.maxExtractedBytes
       /\ (pc = "stream" /\ wsOpen = "pending") => wsQueued = fwdEntry
       /\ (pc = "stream" /\ wsOpen = "open")
            => fsFiles[curOut].bytes + wsWriting + wsQueued = fwdEntry
       /\ pc = "write" => fsFiles[curOut].bytes + wsWriting = fwdEntry
       /\ err \notin ByteLimitErrors
            => /\ extractedBytes = fwdTotal
               /\ pc = "stream" => entryBytes = fwdEntry
       /\ err = ErrEntrySize
            => /\ entryBytes = fwdEntry + refused
               /\ entryBytes > limits.maxEntryBytes
               /\ extractedBytes = fwdTotal
       /\ err = ErrTotalSize
            => /\ entryBytes = fwdEntry + refused
               /\ extractedBytes = fwdTotal + refused
               /\ extractedBytes > limits.maxExtractedBytes

C10_Witness ==
  /\ kind = "zip"
  /\ hasNodeStream
  /\ pc = "cleanup"
  /\ err = ErrTotalSize
  /\ fwdEntry > 0
  /\ refused > 0

LimitFields == {"maxArchiveBytes", "maxEntries", "maxExtractedBytes", "maxEntryBytes"}

DefaultLimit ==
  [maxArchiveBytes |-> DefaultMaxArchiveBytes, maxEntries |-> DefaultMaxEntries,
   maxExtractedBytes |-> DefaultMaxExtractedBytes, maxEntryBytes |-> DefaultMaxEntryBytes]

\* unset, not a number, non-finite, zero, negative, or a fraction below one
Unusable(value) == value.t # "number" \/ value.twice < 2

\* C11: every limit field resolves to a positive integer whatever is supplied;
\* an unset, zero, negative, non-finite or floor-to-zero value resolves to the
\* default of the field, any other value to its floor.
C11_LimitsAlwaysPositive ==
  lPc = "resolved" =>
    \A f \in LimitFields :
      /\ lResolved[f] \in Nat \ {0}
      /\ Unusable(lSupplied[f]) => lResolved[f] = DefaultLimit[f]
      /\ ~Unusable(lSupplied[f]) => 2 * lResolved[f] \in {lSupplied[f].twice, lSupplied[f].twice - 1}

C11_Witness ==
  /\ lPc = "resolved"
  /\ lSupplied.maxEntries = [t |-> "number", twice |-> 1]
  /\ lSupplied.maxEntryBytes = NegInfinity
  /\ lSupplied.maxArchiveBytes = [t |-> "number", twice |-> 0]
  /\ lSupplied.maxExtractedBytes = [t |-> "number", twice |-> 3]
  /\ lResolved.maxEntries = DefaultMaxEntries
  /\ lResolved.maxExtractedBytes = 1

\* C12: a zip archive whose file size exceeds maxArchiveBytes is never read or
\* parsed and nothing is created or written in destDir: the call fails at the
\* size comparison with the archive-size error.
C12_SizeCheckedBeforeRead ==
  (kind = "zip" /\ archiveSize > limits.maxArchiveBytes) =>
    /\ ~archiveRead
    /\ entries = <<>>
    /\ oplog = {}
    /\ fsDirs = {Root, DestDir} /\ fsFiles = NoFiles
    /\ pc \in {"stat", "failed"}
    /\ pc = "failed" => err = ErrArchiveSize

C12_Witness ==
  /\ kind = "zip" /\ pc = "failed" /\ err = ErrArchiveSize
  /\ archiveSize > limits.maxArchiveBytes
  /\ ~archiveRead

\* the name ends with the suffix, letter case apart
EndsWithAnyCase(name, suffix) ==
  /\ Len(name) >= Len(suffix)
  /\ \A i \in 1..Len(suffix) :
       LowerChar(name[Len(name) - Len(suffix) + i]) = LowerChar(suffix[i])

KindOfName(name) ==
  IF EndsWithAnyCase(name, <<".", "z", "i", "p">>) THEN "zip"
  ELSE IF \/ EndsWithAnyCase(name, <<".", "t", "a", "r">>)
          \/ EndsWithAnyCase(name, <<".", "t", "a", "r", ".", "g", "z">>)
          \/ EndsWithAnyCase(name, <<".", "t", "g", "z">>) THEN "tar"
  ELSE "null"

\* C13: without an explicit kind the kind is the one of the file name's suffix,
\* letter case apart (.zip: zip; .tar, .tar.gz, .tgz: tar; anything else: none);
\* a name of no kind fails with the unsupported-archive error and no extractor
\* is started; an extractor is started only for the explicit kind or the kind
\* of the suffix.
C13_KindFromSuffix ==
  /\ (kParam = "undefined" /\ kKind # Unset) => kKind = KindOfName(kPath)
  /\ (kParam = "undefined" /\ KindOfName(kPath) = "null") =>
        /\ kPc \in {"called", "failed"}
        /\ kPc = "failed" => kErr = ErrUnsupported
  /\ kPc \in {"zip", "tar"} =>
        kPc = (IF kParam # "undefined" THEN kParam ELSE KindOfName(kPath))
  /\ kPc = "failed" => (kParam = "undefined" /\ KindOfName(kPath) = "null")

C13_Witness ==
  /\ kPc = "failed" /\ kErr = ErrUnsupported
  /\ kParam = "undefined"
  /\ kPath = <<"a", ".", "z", "i", "p", ".", "g", "z">>

C13_WitnessUpperCase ==
  /\ kPc = "tar" /\ kParam = "undefined"
  /\ kPath = <<"a", ".", "T", "a", "r", ".", "G", "Z">>

\* C14: the promise of extractArchive settles at most once.  When the timer
\* fired first the result is the timeout error with the label of the kind and
\* timeoutMs, whatever the extraction does afterwards; when the extraction
\* settled first the result is the extraction's own and the timer is cleared,
\* never fired.  Zip and tar alike.
C14_SettlesOnce ==
  /\ tSettles <= 1
  /\ (tOutcome = "pending") <=> (tSettles = 0)
  /\ tTimer = "fired" =>
        /\ tOutcome = "timeout"
        /\ tErr = Settled(ErrTimedOut, IF kind = "zip" THEN "extract zip" ELSE "extract tar", tMs)
  /\ tOutcome = "timeout" => tTimer = "fired"
  /\ tOutcome = "resolved" => (pc = "done" /\ tTimer = "cleared" /\ tErr = Settled(NoError, "", 0))
  /\ tOutcome = "rejected" => (pc = "failed" /\ tTimer = "cleared" /\ tErr = Settled(err, "", 0))
  /\ (OpSettled /\ tSeen) => tOutcome # "pending"

C14_Witness ==
  /\ tOutcome = "timeout" /\ tSeen
  /\ pc = "done" /\ kind = "zip"
  /\ DOMAIN fsFiles # {}

C14_WitnessCleared ==
  /\ tOutcome = "rejected" /\ tTimer = "cleared"
  /\ kind = "tar" /\ err = ErrEntryCount

\* the call has timed out on a zip extraction that had written, has since
\* removed the partial file of the entry it fails at (archive.ts:511) and has
\* not rethrown yet (archive.ts:512): its failure will not be delivered
C14_WitnessUnlinked ==
  /\ tOutcome = "timeout" /\ tTimer = "fired" /\ ~tUntouched
  /\ kind = "zip" /\ pc = "rethrow"
  /\ Op("unlink", curOut, idx) \in oplog

\* the write of an earlier, completed entry that no later entry wrote over
SettledWrite(o) ==
  /\ o.op = "write"
  /\ o.entry < idx \/ pc = "done"
  /\ ~\E o2 \in oplog : o2.op = "write" /\ o2.path = o.path /\ o2.entry > o.entry

\* the write of an entry before the failing one, completed, that no later
\* entry wrote over
EarlierWrite(o) ==
  /\ o.op = "write" /\ o.entry >= 1
  /\ o.entry < FailedEntry
  /\ kind = "tar" => phase[o.entry] = "finished"
  /\ ~\E o2 \in oplog : o2.op = "write" /\ o2.path = o.path /\ o2.entry > o.entry

\* C15: an extraction that has failed, zip or tar, has rolled nothing back:
\* the only path removed is the output path of the entry it failed at, removed
\* for that entry; every directory made for an earlier entry is still there,
\* and every file an earlier entry wrote, unless a later entry wrote over it,
\* is there with the bytes of that entry.  (The timer of a timeout changes
\* nothing of the extraction, C29, so that a timed-out extraction is one of
\* these runs.)
C15_NoRollback ==
  err # NoError =>
    /\ \A o \in oplog :
         o.op \in {"unlink", "rmdir"} =>
           /\ FailedEntry >= 1 /\ o.entry = FailedEntry
           /\ o.path = (IF kind = "tar" THEN TarOut(FailedEntry) ELSE curOut)
    /\ \A o \in oplog : (o.op = "mkdir" /\ o.entry < FailedEntry) => o.path \in fsDirs
    /\ \A o \in oplog :
         EarlierWrite(o) =>
           (o.path \in DOMAIN fsFiles /\ fsFiles[o.path].bytes = entries[o.entry].size)

\* the entry at idx is finished: skipped, its directory made, or its file
\* written in full with its permissions restored
EntryFinished ==
  \/ pc = "read"
  \/ /\ pc = "entry"
     /\ \/ ZipResolveEntry(entries[idx].name, Max(0, stripN), DestDir).status = "skip"
        \/ entries[idx].type = "Directory"
  \/ /\ pc = "mkdir"
     /\ entries[idx].type = "Directory"
     /\ ZipResolveEntry(entries[idx].name, Max(0, stripN), DestDir).out \in fsDirs'
  \/ /\ pc = "chmod"
     /\ fwdEntry = entries[idx].size
     /\ wsQueued = 0 /\ wsWriting = 0
     /\ curOut \in DOMAIN fsFiles /\ fsFiles[curOut].bytes = entries[idx].size
     /\ ChmodOps(curOut, entries[idx].perm, idx) \subseteq oplog'

\* C16: a zip extraction works on one entry at a time, in archive order: every
\* path check and filesystem call of a step is for the current entry, and the
\* loop moves to the next entry only from a state in which the current one is
\* finished (skipped, directory made, or written in full and chmod done).
C16_Sequential ==
  [][kind = "zip" =>
       /\ \A o \in oplog' \ oplog : o.entry = idx
       /\ \A c \in checks' \ checks : c.entry = idx
       /\ idx' # idx => (idx' = idx + 1 /\ EntryFinished)]_vars

C16_Witness ==
  /\ kind = "zip" /\ pc = "entry" /\ idx = 3
  /\ \E o \in oplog : o.op = "chmod" /\ o.entry = 1
  /\ \E o \in oplog : o.op = "write" /\ o.entry = 2
  /\ hasNodeStream

\* One call run alone over its archive from entry i on: whether it succeeds, and
\* the entry count and extracted bytes it ends with.
RECURSIVE AloneRun(_, _, _, _, _, _)
AloneRun(k, a, i, dest, count, total) ==
  IF i > Len(a) THEN [ok |-> TRUE, entryCount |-> count, extractedBytes |-> total]
  ELSE IF k = "zip"
    THEN LET r == ZipResolveEntry(a[i].name, 0, dest)
         IN IF r.status = "throw" THEN [ok |-> FALSE, entryCount |-> count, extractedBytes |-> total]
            ELSE IF r.status = "skip" \/ a[i].type = "Directory"
              THEN AloneRun(k, a, i + 1, dest, count, total)
            ELSE IF a[i].size > ConcLimits.maxEntryBytes
                    \/ total + a[i].size > ConcLimits.maxExtractedBytes
              THEN [ok |-> FALSE, entryCount |-> count, extractedBytes |-> total]
            ELSE AloneRun(k, a, i + 1, dest, count, total + a[i].size)
    ELSE LET r == onReadEntry(a[i], 0, dest, ConcLimits, count, total)
         IN IF r.status = "abort"
              THEN [ok |-> FALSE, entryCount |-> r.entryCount, extractedBytes |-> r.extractedBytes]
              ELSE AloneRun(k, a, i + 1, dest, r.entryCount, r.extractedBytes)

Alone(c) ==
  IF \/ calls[c].kind = "zip" /\ Len(calls[c].entries) > ConcLimits.maxEntries
     \/ calls[c].kind = "tar" /\ Len(calls[c].entries) = 0
    THEN [ok |-> FALSE, entryCount |-> 0, extractedBytes |-> 0]
    ELSE AloneRun(calls[c].kind, calls[c].entries, 1, DestDirOf(c), 0, 0)

RECURSIVE SizeSum(_, _)
SizeSum(a, i) == IF i > Len(a) THEN 0 ELSE a[i].size + SizeSum(a, i + 1)

\* C17: of two extractions in flight at once, each one's counters hold only
\* its own entries and bytes, and each one succeeds or fails, with the same
\* final counters, exactly as it does when it runs alone.
C17_CallsIndependent ==
  \A c \in Calls :
    /\ calls[c].extractedBytes <= SizeSum(calls[c].entries, 1)
    /\ calls[c].entryCount <= Len(calls[c].entries)
    /\ calls[c].pc = "done" =>
          /\ Alone(c).ok
          /\ calls[c].extractedBytes = Alone(c).extractedBytes
          /\ calls[c].entryCount = Alone(c).entryCount
    /\ calls[c].pc = "failed" => ~Alone(c).ok

C17_Witness ==
  /\ calls[1].kind = "zip" /\ calls[2].kind = "tar"
  /\ calls[1].pc = "done" /\ calls[2].pc = "failed"
  /\ calls[1].extractedBytes = 3
  /\ calls[2].err = ErrTotalSize

TopDirs == {n \in TopNames : rLayout[n] = "dir"}

RootSettled == rPc \in {"returned", "failed"}

\* C18: with exactly one top-level directory, named package, the call returns
\* extractDir/package; with two top-level directories, neither named package,
\* it fails with the layout error.
C18_PackageOrAmbiguous ==
  RootSettled =>
    /\ TopDirs = {"package"} =>
          (rPc = "returned" /\ rResult = ExtractDir \o <<SL, "package">>)
    /\ (Cardinality(TopDirs) = 2 /\ "package" \notin TopDirs) =>
          (rPc = "failed" /\ rErr = ErrLayout /\ rResult = Null)

C18_Witness ==
  /\ rPc = "failed" /\ rErr = ErrLayout
  /\ TopDirs = {"a", "b"}
  /\ rLayout["package"] = "file"

C18_WitnessPackage ==
  /\ rPc = "returned" /\ TopDirs = {"package"} /\ rLayout["a"] = "file"

\* C19 as stated: the call returns a directory exactly when there is exactly one
\* top-level directory, and raises an error for every other layout.
C19_ErrorUnlessOneDir ==
  RootSettled => ((rPc = "returned") <=> (Cardinality(TopDirs) = 1))

\* C19: the call returns extractDir/package whenever package is a top-level
\* directory, whatever other directories there are; without a directory named
\* package it returns the only top-level directory when there is exactly one,
\* and raises the layout error when there is none or more than one.
C19_ErrorUnlessPackageOrOneDir ==
  RootSettled =>
    /\ "package" \in TopDirs =>
          (rPc = "returned" /\ rResult = ExtractDir \o <<SL, "package">>)
    /\ ("package" \notin TopDirs /\ Cardinality(TopDirs) = 1) =>
          (rPc = "returned" /\ \E n \in TopDirs : rResult = ExtractDir \o <<SL, n>>)
    /\ ("package" \notin TopDirs /\ Cardinality(TopDirs) # 1) =>
          (rPc = "failed" /\ rErr = ErrLayout /\ rResult = Null)

C19_Witness ==
  /\ rPc = "returned"
  /\ TopDirs = {"package", "a", "b"}
  /\ rResult = ExtractDir \o <<SL, "package">>

\* the segments of a stored path: backslashes are separators, empty and "."
\* segments do not count
StoredSegs(name) ==
  SelectSeq(SplitSlash([i \in 1..Len(name) |-> IF name[i] = BS THEN SL ELSE name[i]]),
            LAMBDA seg : seg # <<>> /\ seg # <<DOT>>)

\* what is left of entry i after the strip, and where it belongs in destDir
LeftSegs(i) == Drop(StoredSegs(entries[i].name), Max(0, stripN))
Kept(i) == LeftSegs(i) # <<>>
ExpectedPath(i) == DestDir \o <<SL>> \o JoinSlash(LeftSegs(i))
ExpectedDirOf(i) ==
  IF entries[i].type = "Directory" THEN ExpectedPath(i) ELSE PathDirname(ExpectedPath(i))

KeptEntries == {i \in 1..Len(entries) : Kept(i)}
KeptFiles == {i \in KeptEntries : entries[i].type = "File"}

\* no traversal, no absolute or drive path before or after the strip, no link
\* or device entry, and no two entries that claim one path
WellFormedArchive ==
  /\ \A i \in 1..Len(entries) :
       /\ entries[i].type \in {"File", "Directory"}
       /\ entries[i].name # <<>>
       /\ entries[i].name[1] \notin {SL, BS}
       /\ ~HasDrivePrefix(entries[i].name)
       /\ \A k \in 1..Len(StoredSegs(entries[i].name)) : StoredSegs(entries[i].name)[k] # DotDot
       /\ Kept(i) => ~HasDrivePrefix(JoinSlash(LeftSegs(i)))
  /\ \A i \in KeptFiles : \A j \in KeptEntries \ {i} :
       ExpectedPath(i) \notin DirChain(ExpectedPath(j))

RECURSIVE KeptBytes(_)
KeptBytes(i) ==
  IF i > Len(entries) THEN 0
  ELSE (IF i \in KeptFiles THEN entries[i].size ELSE 0) + KeptBytes(i + 1)

SufficientLimits ==
  /\ archiveSize <= limits.maxArchiveBytes
  /\ Len(entries) <= limits.maxEntries
  /\ \A i \in KeptFiles : entries[i].size <= limits.maxEntryBytes
  /\ KeptBytes(1) <= limits.maxExtractedBytes

RoundTripCase ==
  /\ kind \in {"zip", "tar"}
  /\ pc \notin {"stat", "read", "open"}
  /\ WellFormedArchive
  /\ SufficientLimits

\* destDir holds the archived tree, strip applied: names and byte counts
SameTree ==
  /\ DOMAIN fsFiles = {ExpectedPath(i) : i \in KeptFiles}
  /\ \A i \in KeptFiles : fsFiles[ExpectedPath(i)].bytes = entries[i].size
  /\ fsDirs = UNION ({{Root, DestDir}} \cup {DirChain(ExpectedDirOf(i)) : i \in KeptEntries})

\* C20 as stated: a well-formed archive under sufficient limits never fails, and
\* at the end destDir holds exactly the archived tree with the strip applied,
\* each zip file with the low 9 bits of its stored mode, for every stored mode.
C20_RoundTripEveryMode ==
  RoundTripCase =>
    /\ pc \notin {"failed", "cleanup", "rethrow"}
    /\ pc = "done" =>
          /\ SameTree
          /\ kind = "zip" =>
                \A i \in KeptFiles :
                  entries[i].perm.isNum =>
                    fsFiles[ExpectedPath(i)].mode % 512 = entries[i].perm.v % 512

\* the output path of the entry at idx and the directory made for it
OutAtIdx == ZipResolveEntry(entries[idx].name, Max(0, stripN), DestDir).out
DirAtIdx == IF entries[idx].type = "Directory" THEN OutAtIdx ELSE PathDirname(OutAtIdx)

\* C21: a zip entry whose output path is already a file (of an earlier
\* extraction, or of an earlier entry) is written over it: once the entry is
\* done the file holds the entry's bytes, and the extraction never fails because
\* the file exists: a filesystem error comes only from a file in the place of
\* a directory to make, or a directory in the place of the output file.
C21_OverwritesSilently ==
  kind = "zip" =>
    /\ \A o \in oplog :
         (o.entry >= 1 /\ SettledWrite(o) /\ Op("unlink", o.path, idx) \notin oplog) =>
           (o.path \in DOMAIN fsFiles /\ fsFiles[o.path].bytes = entries[o.entry].size)
    /\ (pc \in {"cleanup", "rethrow", "failed"} /\ err = ErrIo) =>
          (MkdirFails(fsFiles, DirAtIdx) \/ OutAtIdx \in fsDirs)

C21_Witness ==
  /\ kind = "zip" /\ pc = "done"
  /\ Op("write", EarlierFile, 0) \in oplog
  /\ \E i \in 1..Len(entries) :
       /\ Op("write", EarlierFile, i) \in oplog
       /\ entries[i].size = 1
  /\ fsFiles[EarlierFile].bytes = 1

\* no other entry wrote the path of this write
SoleWriter(o) == \A o2 \in oplog : (o2.op = "write" /\ o2.path = o.path) => o2.entry = o.entry

\* C22: no file of a zip extraction ever has a mode beyond the low 9 bits; a
\* chmod is issued for every completed file entry whose stored mode has some
\* of these bits, with the stored mode masked to them, so the file has either
\* that mode or, the chmod having failed, the mode it was created with; and a
\* failed chmod is never the failure of the extraction, which goes on.
C22_ChmodMaskedAndSwallowed ==
  kind = "zip" =>
    /\ \A q \in DOMAIN fsFiles : fsFiles[q].mode \in 0..511
    /\ \A o \in oplog :
         (SettledWrite(o) /\ Op("unlink", o.path, idx) \notin oplog) =>
           IF ChmodApplies(entries[o.entry].perm)
             THEN /\ Op("chmod", o.path, o.entry) \in oplog
                  /\ SoleWriter(o) =>
                       fsFiles[o.path].mode \in {entries[o.entry].perm.v % 512, DefaultFileMode}
             ELSE /\ Op("chmod", o.path, o.entry) \notin oplog
                  /\ SoleWriter(o) => fsFiles[o.path].mode = DefaultFileMode
    /\ (pc \in {"cleanup", "rethrow", "failed"} /\ err = ErrIo) =>
          (MkdirFails(fsFiles, DirAtIdx) \/ OutAtIdx \in fsDirs)

C22_Witness ==
  /\ kind = "zip" /\ pc = "done" /\ Len(entries) = 2
  /\ entries[1].perm = Perm(2541)
  /\ \E o \in oplog : o.op = "chmod" /\ o.entry = 1 /\ fsFiles[o.path].mode = DefaultFileMode
  /\ entries[2].perm = Perm(384)
  /\ \E o \in oplog : o.op = "chmod" /\ o.entry = 2 /\ fsFiles[o.path].mode = 384

\* the tar callback run over the entries from i on, under the strip and limits
\* of the call: whether the extraction gets through, and the error if not
RECURSIVE TarRun(_, _, _)
TarRun(i, count, total) ==
  IF i > Len(entries) THEN [ok |-> TRUE, err |-> NoError]
  ELSE LET r == onReadEntry(entries[i], Max(0, stripN), DestDir, limits, count, total)
       IN IF r.status = "abort" THEN [ok |-> FALSE, err |-> r.err]
          ELSE TarRun(i + 1, r.entryCount, r.extractedBytes)

PlainEntries == \A i \in 1..Len(entries) : entries[i].type \in {"File", "Directory"}

\* a finished extraction of plain entries that no filesystem conflict stopped
ComparableRun ==
  /\ kind \in {"zip", "tar"}
  /\ pc \in {"done", "failed"}
  /\ archiveRead \/ kind = "tar"
  /\ PlainEntries
  /\ err # ErrIo

\* C23 as stated: on the same plain entries, strip and limits the zip extraction
\* and the tar extraction both succeed, or both fail with the same error.
C23_SameOutcome ==
  ComparableRun =>
    /\ (pc = "done") <=> TarRun(1, 0, 0).ok
    /\ pc = "failed" => err = TarRun(1, 0, 0).err

\* ---- C24 ----
\* the segments the strip leaves: the stored segments (backslashes read as
\* slashes, empty and '.' segments dropped, '..' kept) without the first n
StrippedSegs(p, n) == Drop(StoredSegs(p), n)

\* C24: stripArchivePath(p, n) is the normalization of the stored segments
\* left after dropping the first n of them, a '..' segment counting as one,
\* and it is null exactly when that normalization leaves nothing or '.'.
C24_StripsRawSegments ==
  pRel # UnsetPath =>
    LET left == PosixNormalize(JoinSlash(StrippedSegs(pPath, pStrip)))
    IN /\ (pRel = Null) <=> (left = <<>> \/ left = <<DOT>>)
       /\ pRel # Null => pRel = left
       /\ StrippedSegs(pPath, pStrip) = <<>> => pRel = Null

\* 'a/../a' stripped by one is '../a': the '..' was counted, not collapsed
C24_Witness ==
  /\ pPath = <<LETTER, SL, DOT, DOT, SL, LETTER>>
  /\ pStrip = 1
  /\ pRel = <<DOT, DOT, SL, LETTER>>

\* 'a/a/a.' stripped by one is 'a/a.'
C24_WitnessKept ==
  /\ pPath = <<LETTER, SL, LETTER, SL, LETTER, DOT>>
  /\ pStrip = 1
  /\ pRel = <<LETTER, SL, LETTER, DOT>>

\* 'a/a' stripped by two is null
C24_WitnessNull ==
  /\ pPath = <<LETTER, SL, LETTER>>
  /\ pStrip = 2
  /\ pRel = Null

\* ---- C25 ----
\* entry i went through the limits callback without an abort
NotAborted(i) ==
  /\ kind = "tar"
  /\ i < idx
  /\ TarAbortIndex(1, 0, 0) = 0 \/ i < TarAbortIndex(1, 0, 0)

\* C25: every tar entry for which the unlimited variant's filter records an
\* error makes the limits variant abort: no entry the limits callback skipped
\* or let through is one the unlimited filter fails on.
C25_NeverWeaker ==
  \A i \in 1..Len(entries) :
    NotAborted(i) => filterUnlimited(entries[i], Max(0, stripN), DestDir) = NoError

\* ---- C26 ----
\* entry i was let through by the tar callback: it reached the containment
\* check and the callback returned without abort
LetThrough(i) == NotAborted(i) /\ \E c \in checks : c.entry = i

LetThroughUpTo(i) == {j \in 1..i : LetThrough(j)}

RECURSIVE DeclaredSum(_)
DeclaredSum(S) ==
  IF S = {} THEN 0
  ELSE LET j == CHOOSE x \in S : TRUE IN entries[j].size + DeclaredSum(S \ {j})

\* entry i, coming after the entries let through before it, breaks a budget
BreaksBudget(i) ==
  \/ entries[i].size > limits.maxEntryBytes
  \/ DeclaredSum(LetThroughUpTo(i - 1)) + entries[i].size > limits.maxExtractedBytes
  \/ Cardinality(LetThroughUpTo(i - 1)) + 1 > limits.maxEntries

BudgetErrors == {ErrEntryCount, ErrEntrySize, ErrTotalSize}

C26_WitnessEntrySize ==
  /\ kind = "tar" /\ pc = "failed" /\ err = ErrEntrySize
  /\ entries[FailedEntry].size > limits.maxEntryBytes

\* two entries let through within all three budgets
C26_WitnessPass ==
  /\ kind = "tar" /\ pc = "done"
  /\ LetThrough(1) /\ LetThrough(2)
  /\ DeclaredSum({1, 2}) = limits.maxExtractedBytes

\* ---- C27 ----
\* the file entries an extraction has written
FileWritten(i) == \E o \in oplog : o.entry = i /\ o.op = "write"

\* C27: each limit is inclusive, in zip and in tar.  An extraction fails on
\* the archive size, the entry count, an entry's size or the total size only
\* when the quantity is strictly above its limit, and it does fail when it is:
\* one that completes is of an archive with at most maxEntries entries, and
\* every file it wrote has at most maxEntryBytes bytes, all of them together
\* at most maxExtractedBytes.
C27_LimitsInclusive ==
  /\ (kind = "zip" /\ pc # "stat") =>
       (err = ErrArchiveSize <=> archiveSize > limits.maxArchiveBytes)
  /\ (kind = "zip" /\ pc \notin {"stat", "read"} /\ err # ErrArchiveSize) =>
       (err = ErrEntryCount <=> Len(entries) > limits.maxEntries)
  /\ (kind = "tar" /\ err = ErrEntryCount) => Len(entries) > limits.maxEntries
  /\ err = ErrEntrySize =>
       /\ entries[FailedEntry].size > limits.maxEntryBytes
       /\ kind = "zip" => entryBytes > limits.maxEntryBytes
  /\ err = ErrTotalSize => extractedBytes > limits.maxExtractedBytes
  /\ pc = "done" =>
       /\ Len(entries) <= limits.maxEntries
       /\ extractedBytes <= limits.maxExtractedBytes
       /\ DeclaredSum({i \in 1..Len(entries) : FileWritten(i)}) <= limits.maxExtractedBytes
       /\ \A i \in 1..Len(entries) : FileWritten(i) => entries[i].size <= limits.maxEntryBytes

\* ---- C28 ----
\* C28: a non-null result of stripArchivePath does not start with '/', has no
\* empty and no '.' segment and is not '.'; and a stripped path that passes
\* the second validation resolves strictly below destDir, so that the
\* containment check of resolveCheckedOutPath does not reject it.
C28_ContainmentNeverRejects ==
  /\ pRel \notin {UnsetPath, Null} =>
       /\ pRel # <<>> /\ pRel # <<DOT>>
       /\ pRel[1] # SL
       /\ \A k \in 1..Len(SplitSlash(pRel)) :
            SplitSlash(pRel)[k] # <<>> /\ SplitSlash(pRel)[k] # <<DOT>>
  /\ (pRel \notin {UnsetPath, Null} /\ pRelValid = NoError /\ pOut # UnsetPath) =>
       /\ pOut # Null
       /\ StartsWith(pOut, DestDir \o <<SL>>)
       /\ Len(pOut) > Len(DestDir) + 1

\* 'a/../a' stripped by two is 'a', passes the second validation and resolves
\* to destDir/a
C28_Witness ==
  /\ pPath = <<LETTER, SL, DOT, DOT, SL, LETTER>>
  /\ pStrip = 2
  /\ pRel = <<LETTER>>
  /\ pRelValid = NoError
  /\ pOut = DestDir \o <<SL, LETTER>>

\* a stripped path outside destDir is one the second validation rejects
C28_WitnessRejected ==
  /\ pRel \notin {UnsetPath, Null}
  /\ pRelValid = ErrEscape
  /\ pOut = Null

\* ---- C29 ----
\* the timer rejected the call before the zip extraction had touched the
\* filesystem: every operation in the log was made after the timeout
TimedOutFirst == kind = "zip" /\ tOutcome = "timeout" /\ tUntouched

\* operation o was made for an entry that passed both validations and the
\* containment check, on a path of that entry's output
LateOpChecked(o) ==
  /\ validateArchiveEntryPath(entries[o.entry].name) = NoError
  /\ validateArchiveEntryPath(stripArchivePath(entries[o.entry].name, stripN)) = NoError
  /\ \E c \in checks : c.entry = o.entry /\ c.out # Null /\ o.path \in DirChain(c.out)
  /\ StrictlyBelowDest(o.path)

\* C29: the timer leaves the extraction alone.  The step on which the timer
\* fires changes nothing of the extraction's state, and the extraction is
\* marked neither finished nor failed by it; whatever a timed-out zip
\* extraction does to the filesystem after the timeout was checked like any
\* other write: validated path, containment check, bytes within the budgets.
C29_TimeoutDoesNotStop ==
  /\ [][tTimer' # tTimer => UNCHANGED extractVars]_vars
  /\ [](pc = "failed" => err # NoError)
  /\ [](TimedOutFirst =>
          /\ \A o \in oplog : LateOpChecked(o)
          /\ fwdEntry <= limits.maxEntryBytes
          /\ fwdTotal <= limits.maxExtractedBytes
          /\ oplog # {} => Len(entries) <= limits.maxEntries
          /\ \A f \in DOMAIN fsFiles : fsFiles[f].bytes <= limits.maxEntryBytes)

\* after the timeout the loop made a directory and wrote the files of both
\* entries of the archive
C29_Witness ==
  /\ TimedOutFirst /\ tTimer = "fired"
  /\ pc = "done" /\ Len(entries) = 2
  /\ FileWritten(1) /\ FileWritten(2)
  /\ \E o \in oplog : o.op = "mkdir"

\* after the timeout the second entry was written over the first one's file
C29_WitnessOverwrite ==
  /\ TimedOutFirst
  /\ \E o1, o2 \in oplog :
       o1.op = "write" /\ o2.op = "write" /\ o1.path = o2.path /\ o1.entry < o2.entry

\* after the timeout a partial file was deleted
C29_WitnessDelete ==
  /\ TimedOutFirst
  /\ \E o \in oplog : o.op = "unlink"

\* ---- C30 ----
\* the stored path of entry i is empty, '.' or './', or no segment of it is
\* left after dropping stripComponents segments
NothingLeft(i) ==
  \/ entries[i].name \in {<<>>, <<DOT>>, <<DOT, SL>>}
  \/ LeftSegs(i) = <<>>

\* entry i was passed over: no error at it, no filesystem operation and no
\* containment check for it
PassedOver(i) ==
  /\ ~(pc = "failed" /\ FailedEntry = i)
  /\ ~\E o \in oplog : o.entry = i
  /\ ~\E c \in checks : c.entry = i

\* the entries before the one the tar decoder is at that have something left
CountedBefore == {j \in 1..(idx - 1) : j <= Len(entries) /\ ~NothingLeft(j)}

\* in tar the counters hold the entries with something left, and only those
TarCountsKeptOnly ==
  (kind = "tar" /\ pc \in {"header", "done"}) =>
    /\ entryCount = Cardinality(CountedBefore)
    /\ extractedBytes = DeclaredSum(CountedBefore)

\* C30: every processed entry with nothing left of its path is skipped without
\* error, without filesystem operation and without containment check, and in
\* tar it adds nothing to the entry count nor to the byte total.  Stated for
\* the entries whose stored path passes the first validation, which comes
\* before the strip (archive.ts:467, 573) and fails the extraction on a path
\* like '../aa' whatever the strip leaves of it.
C30_ValidSkippedSilently ==
  /\ \A i \in 1..Len(entries) :
       (Processed(i) /\ NothingLeft(i) /\ validateArchiveEntryPath(entries[i].name) = NoError)
         => PassedOver(i)
  /\ TarCountsKeptOnly

====
